---------------------------- MODULE Spec2Model ----------------------------
(***************************************************************************)
(* text-db-query-ai: the query pipeline of QueryGenerator.generateQuery    *)
(* (src/src/generator/query-generator.ts), the QuerySanitizer              *)
(* (src/src/security/sanitizer.ts) and the SecurityValidator               *)
(* (listed in src/examples/README.md, lines 150-433).                      *)
(*                                                                         *)
(* Query texts are TLA+ strings; the JavaScript string and regular         *)
(* expression operations the code uses are computed character by           *)
(* character by the operators of the first section.                        *)
(***************************************************************************)
EXTENDS Integers, Sequences, FiniteSets, TLC

(***************************************************************************)
(* JavaScript strings                                                      *)
(***************************************************************************)

\* The character standing for U+0000 in query texts.
NUL == "@"

\* The character standing for the grave accent of a Markdown code fence.
GRAVE == "#"

FENCE == GRAVE \o GRAVE \o GRAVE

CharAt(s, i) == SubSeq(s, i, i)

\* What String.prototype.trim strips and the regular expression class \s
\* matches, among the characters of the model.
IsSpace(c) == c \in {" ", "\n", "\t", "\r"}

\* What the regular expression '.' does not match: the line terminators.
IsLineTerminator(c) == c \in {"\n", "\r"}

IsDigit(c) == c \in {"0", "1", "2", "3", "4", "5", "6", "7", "8", "9"}

LowerSet ==
  {"a", "b", "c", "d", "e", "f", "g", "h", "i", "j", "k", "l", "m",
   "n", "o", "p", "q", "r", "s", "t", "u", "v", "w", "x", "y", "z"}

\* The conversion of one character by toUpperCase.
UpperChar(c) ==
  CASE c = "a" -> "A" [] c = "b" -> "B" [] c = "c" -> "C" [] c = "d" -> "D" [] c = "e" -> "E"
    [] c = "f" -> "F" [] c = "g" -> "G" [] c = "h" -> "H" [] c = "i" -> "I" [] c = "j" -> "J"
    [] c = "k" -> "K" [] c = "l" -> "L" [] c = "m" -> "M" [] c = "n" -> "N" [] c = "o" -> "O"
    [] c = "p" -> "P" [] c = "q" -> "Q" [] c = "r" -> "R" [] c = "s" -> "S" [] c = "t" -> "T"
    [] c = "u" -> "U" [] c = "v" -> "V" [] c = "w" -> "W" [] c = "x" -> "X" [] c = "y" -> "Y"
    [] c = "z" -> "Z"
    [] OTHER -> c

\* The conversion of one character by toLowerCase.
LowerChar(c) ==
  CASE c = "A" -> "a" [] c = "B" -> "b" [] c = "C" -> "c" [] c = "D" -> "d" [] c = "E" -> "e"
    [] c = "F" -> "f" [] c = "G" -> "g" [] c = "H" -> "h" [] c = "I" -> "i" [] c = "J" -> "j"
    [] c = "K" -> "k" [] c = "L" -> "l" [] c = "M" -> "m" [] c = "N" -> "n" [] c = "O" -> "o"
    [] c = "P" -> "p" [] c = "Q" -> "q" [] c = "R" -> "r" [] c = "S" -> "s" [] c = "T" -> "t"
    [] c = "U" -> "u" [] c = "V" -> "v" [] c = "W" -> "w" [] c = "X" -> "x" [] c = "Y" -> "y"
    [] c = "Z" -> "z"
    [] OTHER -> c

\* s.toUpperCase()
RECURSIVE ToUpperCase(_)
ToUpperCase(s) ==
  IF s = "" THEN "" ELSE UpperChar(CharAt(s, 1)) \o ToUpperCase(Tail(s))

\* s.toLowerCase()
RECURSIVE ToLowerCase(_)
ToLowerCase(s) ==
  IF s = "" THEN "" ELSE LowerChar(CharAt(s, 1)) \o ToLowerCase(Tail(s))

MinOf(S) == CHOOSE x \in S : \A y \in S : x <= y

\* p occurs in s at position i.
MatchAt(s, p, i) == i >= 1 /\ i + Len(p) - 1 <= Len(s) /\ SubSeq(s, i, i + Len(p) - 1) = p

\* The first position >= from at which p occurs in s, 0 when there is none.
IndexFrom(s, p, from) ==
  LET I == {i \in from..(Len(s) - Len(p) + 1) : MatchAt(s, p, i)}
  IN  IF I = {} THEN 0 ELSE MinOf(I)

IndexOf(s, p) == IndexFrom(s, p, 1)

Includes(s, p) == IndexOf(s, p) # 0

StartsWith(s, p) == MatchAt(s, p, 1)

EndsWith(s, p) == Len(p) <= Len(s) /\ SubSeq(s, Len(s) - Len(p) + 1, Len(s)) = p

\* The first position >= from of a character that is not white space,
\* Len(s) + 1 when the rest is white space.
SkipSpaces(s, from) ==
  LET I == {i \in from..Len(s) : ~IsSpace(CharAt(s, i))}
  IN  IF I = {} THEN Len(s) + 1 ELSE MinOf(I)

Trim(s) ==
  LET I == {i \in 1..Len(s) : ~IsSpace(CharAt(s, i))}
  IN  IF I = {} THEN "" ELSE SubSeq(s, MinOf(I), CHOOSE j \in I : \A k \in I : k <= j)

RECURSIVE Join(_, _)
Join(parts, sep) ==
  IF Len(parts) = 0 THEN ""
  ELSE IF Len(parts) = 1 THEN parts[1]
  ELSE parts[1] \o sep \o Join(Tail(parts), sep)

\* s.split('\n')
RECURSIVE SplitLines(_)
SplitLines(s) ==
  LET i == IndexOf(s, "\n")
  IN  IF i = 0 THEN <<s>>
      ELSE <<SubSeq(s, 1, i - 1)>> \o SplitLines(SubSeq(s, i + 1, Len(s)))

\* s.replace(/\s+/g, ' ')
RECURSIVE CollapseSpaces(_)
CollapseSpaces(s) ==
  IF s = "" THEN ""
  ELSE IF IsSpace(CharAt(s, 1))
       THEN " " \o CollapseSpaces(SubSeq(s, SkipSpaces(s, 1), Len(s)))
       ELSE CharAt(s, 1) \o CollapseSpaces(Tail(s))

\* s with every occurrence of the character c removed.
RECURSIVE RemoveChar(_, _)
RemoveChar(s, c) ==
  IF s = "" THEN ""
  ELSE (IF CharAt(s, 1) = c THEN "" ELSE CharAt(s, 1)) \o RemoveChar(Tail(s), c)

\* The number of occurrences of the character c in s.
CountChar(s, c) == Cardinality({i \in 1..Len(s) : CharAt(s, i) = c})

\* The end of the longest run of digits that starts at position i
\* (i - 1 when there is no digit at i).
DigitsEnd(s, i) ==
  LET I == {j \in i..Len(s) : ~IsDigit(CharAt(s, j))}
  IN  IF I = {} THEN Len(s) ELSE MinOf(I) - 1

DigitValue(c) ==
  CASE c = "0" -> 0 [] c = "1" -> 1 [] c = "2" -> 2 [] c = "3" -> 3 [] c = "4" -> 4
    [] c = "5" -> 5 [] c = "6" -> 6 [] c = "7" -> 7 [] c = "8" -> 8 [] c = "9" -> 9

\* parseInt(d, 10) of a string of digits.
RECURSIVE ParseInt(_)
ParseInt(d) ==
  IF d = "" THEN 0
  ELSE ParseInt(SubSeq(d, 1, Len(d) - 1)) * 10 + DigitValue(CharAt(d, Len(d)))

\* String(n) of a natural number.
RECURSIVE NumberToString(_)
NumberToString(n) ==
  IF n < 0 THEN "-" \o NumberToString(0 - n)
  ELSE IF n < 10 THEN CharAt("0123456789", n + 1)
  ELSE NumberToString(n \div 10) \o CharAt("0123456789", (n % 10) + 1)

(***************************************************************************)
(* QuerySanitizer                                                          *)
(***************************************************************************)

\* query.replace(/--[^\n]*/g, '')
RECURSIVE RemoveLineComments(_)
RemoveLineComments(s) ==
  LET i == IndexOf(s, "--")
  IN  IF i = 0 THEN s
      ELSE LET nl == IndexFrom(s, "\n", i)
           IN  SubSeq(s, 1, i - 1)
               \o (IF nl = 0 THEN "" ELSE RemoveLineComments(SubSeq(s, nl, Len(s))))

\* sanitized.replace(/\/\*[\s\S]*?\*\//g, ''): an opener with no closer
\* after it is left in place.
RECURSIVE RemoveBlockComments(_)
RemoveBlockComments(s) ==
  LET i == IndexOf(s, "/*")
      j == IF i = 0 THEN 0 ELSE IndexFrom(s, "*/", i + 2)
  IN  IF j = 0 THEN s
      ELSE SubSeq(s, 1, i - 1) \o RemoveBlockComments(SubSeq(s, j + 2, Len(s)))

removeComments(query) == RemoveBlockComments(RemoveLineComments(query))

\* sanitized.replace(/;+$/, '')
RECURSIVE StripTrailingSemicolons(_)
StripTrailingSemicolons(s) ==
  IF EndsWith(s, ";") THEN StripTrailingSemicolons(SubSeq(s, 1, Len(s) - 1)) ELSE s

TrimmedNonEmptyLines(lines) ==
  SelectSeq([i \in 1..Len(lines) |-> Trim(lines[i])], LAMBDA l : Len(l) > 0)

normalizeWhitespace(query) ==
  CollapseSpaces(Join(TrimmedNonEmptyLines(SplitLines(query)), " "))

sanitize(query) ==
  RemoveChar(normalizeWhitespace(StripTrailingSemicolons(removeComments(Trim(query)))), NUL)

\* text.match(/<opener>([\s\S]*?)<FENCE>/): the interior of the first block
\* opened by fence, as <<found, interior>>.
FencedBlock(text, fence) ==
  LET i == IndexOf(text, fence)
      j == IF i = 0 THEN 0 ELSE IndexFrom(text, FENCE, i + Len(fence))
  IN  IF j = 0 THEN <<FALSE, "">>
      ELSE <<TRUE, SubSeq(text, i + Len(fence), j - 1)>>

extractFromMarkdown(text) ==
  LET sqlBlockMatch  == FencedBlock(text, FENCE \o "sql\n")
      codeBlockMatch == FencedBlock(text, FENCE \o "\n")
  IN  IF sqlBlockMatch[1] THEN Trim(sqlBlockMatch[2])
      ELSE IF codeBlockMatch[1] THEN Trim(codeBlockMatch[2])
      ELSE text

validStarts == <<"SELECT", "INSERT", "UPDATE", "DELETE", "WITH">>

\* The running parenthesis counter after the first i characters.
ParenCount(s, i) ==
  Cardinality({j \in 1..i : CharAt(s, j) = "("}) - Cardinality({j \in 1..i : CharAt(s, j) = ")"})

\* validateSQLSyntax comparing only the final parenthesis count.
FinalCountOnlyMutant(query) ==
  LET trimmed == ToUpperCase(Trim(query))
      isValidStart == \E k \in 1..Len(validStarts) : StartsWith(trimmed, validStarts[k])
  IN  IF ~isValidStart
        THEN [valid |-> FALSE, error |-> "Query must start with one of"]
      ELSE IF ParenCount(query, Len(query)) # 0
        THEN [valid |-> FALSE, error |-> "Unbalanced parentheses"]
      ELSE IF CountChar(query, "'") % 2 # 0
        THEN [valid |-> FALSE, error |-> "Unbalanced single quotes"]
      ELSE IF CountChar(query, "\"") % 2 # 0
        THEN [valid |-> FALSE, error |-> "Unbalanced double quotes"]
      ELSE [valid |-> TRUE, error |-> ""]

\* The result of validateSQLSyntax: valid, and the error when not valid.
validateSQLSyntax(query) ==
  LET trimmed == ToUpperCase(Trim(query))
      isValidStart == \E k \in 1..Len(validStarts) : StartsWith(trimmed, validStarts[k])
  IN  IF ~isValidStart
        THEN [valid |-> FALSE, error |-> "Query must start with one of"]
      ELSE IF \E i \in {j \in 1..Len(query) : CharAt(query, j) = ")"} : ParenCount(query, i) < 0
        THEN [valid |-> FALSE, error |-> "Unbalanced parentheses"]
      ELSE IF ParenCount(query, Len(query)) # 0
        THEN [valid |-> FALSE, error |-> "Unbalanced parentheses"]
      ELSE IF CountChar(query, "'") % 2 # 0
        THEN [valid |-> FALSE, error |-> "Unbalanced single quotes"]
      ELSE IF CountChar(query, "\"") % 2 # 0
        THEN [valid |-> FALSE, error |-> "Unbalanced double quotes"]
      ELSE [valid |-> TRUE, error |-> ""]

escapeValue(value) ==
  LET D[i \in 0..Len(value)] ==
        IF i = 0 THEN ""
        ELSE D[i - 1] \o (IF CharAt(value, i) = "'" THEN "''" ELSE CharAt(value, i))
  IN  D[Len(value)]

\* The positions at which /LIMIT\s+\d+/i matches s.
LimitMatches(s) ==
  LET u == ToUpperCase(s)
  IN  {i \in 1..Len(s) :
         /\ MatchAt(u, "LIMIT", i)
         /\ SkipSpaces(s, i + 5) > i + 5
         /\ SkipSpaces(s, i + 5) <= Len(s)
         /\ IsDigit(CharAt(s, SkipSpaces(s, i + 5)))}

\* /LIMIT\s+\d+/i.test(query)
HasLimit(query) == LimitMatches(query) # {}

\* addLimitIfMissing appending without looking for a LIMIT clause.
AlwaysAppendMutant(query, limit) == query \o " LIMIT " \o NumberToString(limit)

addLimitIfMissing(query, limit) ==
  IF ~HasLimit(query) THEN query \o " LIMIT " \o NumberToString(limit) ELSE query

(***************************************************************************)
(* Configuration and user context                                          *)
(***************************************************************************)

\* An optional property of a configuration object: left out, or given.
Undefined == [defined |-> FALSE]
Given(v) == [defined |-> TRUE, value |-> v]
OrElse(opt, default) == IF opt.defined THEN opt.value ELSE default

\* UserContext: userId is a number (num) or a string (str).
NoContext == [present |-> FALSE, isString |-> FALSE, num |-> 0, str |-> "", role |-> ""]
NumberUser(n, role) == [present |-> TRUE, isString |-> FALSE, num |-> n, str |-> "", role |-> role]
StringUser(id, role) == [present |-> TRUE, isString |-> TRUE, num |-> 0, str |-> id, role |-> role]

\* userContext || this.config.userContext
EffectiveContext(userContext, configContext) ==
  IF userContext.present THEN userContext ELSE configContext

DefaultMaxRowLimit == 1000

\* The constructor of SecurityValidator: the defaults, overridden by the
\* properties the given SecurityConfig holds.  security is Undefined when
\* the generator's config has no security object.
ValidatorConfig(security) ==
  LET c == OrElse(security, [allowedOperations |-> Undefined, allowedTables |-> Undefined,
                             restrictedColumns |-> Undefined, maxRowLimit |-> Undefined,
                             requireUserContext |-> Undefined,
                             enableRowLevelSecurity |-> Undefined,
                             customValidator |-> FALSE])
  IN  [allowedOperations      |-> OrElse(c.allowedOperations, {"SELECT"}),
       allowedTables          |-> OrElse(c.allowedTables, <<>>),
       restrictedColumns      |-> OrElse(c.restrictedColumns, <<>>),
       maxRowLimit            |-> OrElse(c.maxRowLimit, DefaultMaxRowLimit),
       requireUserContext     |-> OrElse(c.requireUserContext, TRUE),
       enableRowLevelSecurity |-> OrElse(c.enableRowLevelSecurity, TRUE),
       customValidator        |-> c.customValidator]

(***************************************************************************)
(* SecurityValidator                                                       *)
(***************************************************************************)

\* An entry of validate's errors list: the message's kind and what the
\* message interpolates (names joined by ', ', the LIMIT found, the maximum).
Err(kind, names, limit, max) == [kind |-> kind, names |-> names, limit |-> limit, max |-> max]

ErrUserContextRequired == "User context is required but not provided"
ErrNoOperation         == "Could not determine query operation"
ErrOperationNotAllowed == "Operation is not allowed"
ErrDangerousPatterns   == "Query contains dangerous patterns"
ErrRestrictedColumns   == "Query accesses restricted columns"
ErrUnauthorizedTables  == "Query accesses unauthorized tables"
ErrLimitExceeds        == "LIMIT exceeds maximum allowed limit"
ErrCustomFailed        == "Custom validation failed"
ErrCustomError         == "Custom validation error"
WarnNoLimit            == "Query does not have a LIMIT clause"
MultipleStatements     == "Multiple statements detected"

\* detectOperation taking a WITH query for a SELECT.
WithAsSelectMutant(query) ==
  LET normalizedQuery == ToUpperCase(Trim(query))
  IN  IF StartsWith(normalizedQuery, "SELECT") \/ StartsWith(normalizedQuery, "WITH")
        THEN "SELECT"
      ELSE IF StartsWith(normalizedQuery, "INSERT") THEN "INSERT"
      ELSE IF StartsWith(normalizedQuery, "UPDATE") THEN "UPDATE"
      ELSE IF StartsWith(normalizedQuery, "DELETE") THEN "DELETE"
      ELSE ""

\* The operation, or "" for null.
detectOperation(query) ==
  LET normalizedQuery == ToUpperCase(Trim(query))
  IN  IF StartsWith(normalizedQuery, "SELECT") THEN "SELECT"
      ELSE IF StartsWith(normalizedQuery, "INSERT") THEN "INSERT"
      ELSE IF StartsWith(normalizedQuery, "UPDATE") THEN "UPDATE"
      ELSE IF StartsWith(normalizedQuery, "DELETE") THEN "DELETE"
      ELSE ""

\* /a.*b/.test(s) for literal a and b: b occurs after an occurrence of a
\* with no line terminator in between.
MatchesDotStar(s, a, b) ==
  \E i \in {i \in 1..Len(s) : MatchAt(s, a, i)} :
    \E j \in {j \in (i + Len(a))..Len(s) : MatchAt(s, b, j)} :
      \A k \in (i + Len(a))..(j - 1) : ~IsLineTerminator(CharAt(s, k))

commandPatterns ==
  <<"EXEC", "EXECUTE", "xp_cmdshell", "sp_executesql", "UNION.*SELECT", "--", "/*",
    "DROP", "TRUNCATE", "ALTER", "CREATE", "GRANT", "REVOKE">>

\* The patterns matched only where they stand as words of their own.
WholeWordMutant(pattern, normalizedQuery) ==
  LET inWord(c) == LowerChar(c) \in LowerSet \/ IsDigit(c) \/ c = "_"
  IN  \E i \in 1..Len(normalizedQuery) :
        /\ MatchAt(normalizedQuery, ToUpperCase(pattern), i)
        /\ i = 1 \/ ~inWord(CharAt(normalizedQuery, i - 1))
        /\ \/ i + Len(pattern) > Len(normalizedQuery)
           \/ ~inWord(CharAt(normalizedQuery, i + Len(pattern)))

\* new RegExp(pattern, 'i').test(normalizedQuery): normalizedQuery is the
\* uppercased query, so a literal pattern matches where its upper-case
\* form occurs.
PatternMatches(pattern, normalizedQuery) ==
  CASE pattern = "UNION.*SELECT" -> MatchesDotStar(normalizedQuery, "UNION", "SELECT")
    [] pattern = "xp_cmdshell"   -> Includes(normalizedQuery, "XP_CMDSHELL")
    [] pattern = "sp_executesql" -> Includes(normalizedQuery, "SP_EXECUTESQL")
    [] OTHER                     -> Includes(normalizedQuery, pattern)

\* query.includes(';') && !query.trim().endsWith(';')
HasMultipleStatements(query) == Includes(query, ";") /\ ~EndsWith(Trim(query), ";")

detectDangerousPatterns(query) ==
  LET normalizedQuery == ToUpperCase(query)
  IN  (IF HasMultipleStatements(query) THEN <<MultipleStatements>> ELSE <<>>)
      \o SelectSeq(commandPatterns, LAMBDA p : PatternMatches(p, normalizedQuery))

SubstringMutant(restrictedColumns, query) ==
  SelectSeq(restrictedColumns, LAMBDA column : Includes(query, column))

findRestrictedColumns(restrictedColumns, query) ==
  LET normalizedQuery == ToLowerCase(query)
  IN  SelectSeq(restrictedColumns,
                LAMBDA column : Includes(normalizedQuery, ToLowerCase(column)))

IsIdentStart(c) == c = "_" \/ c \in LowerSet
IsIdentChar(c)  == IsIdentStart(c) \/ IsDigit(c)

\* The end of the longest run of [a-z0-9_] that starts at position i.
IdentEnd(s, i) ==
  LET I == {j \in i..Len(s) : ~IsIdentChar(CharAt(s, j))}
  IN  IF I = {} THEN Len(s) ELSE MinOf(I) - 1

\* /<keyword>\s+([a-z_][a-z0-9_]*)/ matches s at position i.
KeywordMatchAt(s, keyword, i) ==
  LET k == SkipSpaces(s, i + Len(keyword))
  IN  /\ MatchAt(s, keyword, i)
      /\ k > i + Len(keyword)
      /\ k <= Len(s)
      /\ IsIdentStart(CharAt(s, k))

\* The first position >= from at which the keyword pattern matches, 0 if none.
KeywordMatchFrom(s, keyword, from) ==
  LET I == {i \in from..Len(s) : KeywordMatchAt(s, keyword, i)}
  IN  IF I = {} THEN 0 ELSE MinOf(I)

\* The identifier captured by the match at position i.
CapturedName(s, keyword, i) ==
  LET k == SkipSpaces(s, i + Len(keyword)) IN SubSeq(s, k, IdentEnd(s, k))

\* s.match(/<keyword>\s+([a-z_][a-z0-9_]*)/g): the names captured by the
\* successive matches, each search resuming where the last match ended.
RECURSIVE AllNames(_, _, _)
AllNames(s, keyword, from) ==
  LET i == KeywordMatchFrom(s, keyword, from)
  IN  IF i = 0 THEN <<>>
      ELSE <<CapturedName(s, keyword, i)>>
           \o AllNames(s, keyword, IdentEnd(s, SkipSpaces(s, i + Len(keyword))) + 1)

\* s.match(/<keyword>\s+([a-z_][a-z0-9_]*)/): the first match only.
FirstName(s, keyword) ==
  LET i == KeywordMatchFrom(s, keyword, 1)
  IN  IF i = 0 THEN <<>> ELSE <<CapturedName(s, keyword, i)>>

\* [...new Set(tables)]
RECURSIVE Unique(_)
Unique(names) ==
  IF Len(names) = 0 THEN <<>>
  ELSE LET init == Unique(SubSeq(names, 1, Len(names) - 1))
           last == names[Len(names)]
       IN  IF \E i \in 1..Len(init) : init[i] = last THEN init ELSE Append(init, last)

Elements(names) == {names[i] : i \in 1..Len(names)}

extractTableNames(query) ==
  LET normalizedQuery == ToLowerCase(query)
  IN  Unique(AllNames(normalizedQuery, "from", 1)
             \o AllNames(normalizedQuery, "join", 1)
             \o FirstName(normalizedQuery, "into")
             \o FirstName(normalizedQuery, "update"))

\* The value captured by query.match(/LIMIT\s+(\d+)/i): the first match.
FirstLimitValue(query) ==
  LET i == MinOf(LimitMatches(query))
      k == SkipSpaces(query, i + 5)
  IN  ParseInt(SubSeq(query, k, DigitsEnd(query, k)))

LimitAtLeastMutant(limit, max) == limit >= max

\* limit > this.config.maxRowLimit
LimitExceeds(limit, max) == limit > max

\* The operation checked against the default list, whatever the config holds.
DefaultListMutant(cfg, operation) ==
  IF operation # "SELECT"
    THEN <<Err(ErrOperationNotAllowed, <<operation>>, 0, 0)>>
    ELSE <<>>

\* validate without its allowed-operation check.
NoOperationCheckMutant(cfg, operation) == <<>>

\* Check 3 of validate: the operation against allowedOperations.
OperationErrors(cfg, operation) ==
  IF operation \notin cfg.allowedOperations
    THEN <<Err(ErrOperationNotAllowed, <<operation>>, 0, 0)>>
    ELSE <<>>

\* Check 4: one combined error listing every matched pattern.
DangerousErrors(query) ==
  LET dangerousPatterns == detectDangerousPatterns(query)
  IN  IF Len(dangerousPatterns) > 0
        THEN <<Err(ErrDangerousPatterns, dangerousPatterns, 0, 0)>>
        ELSE <<>>

\* Check 5: the restricted columns found in the query.
RestrictedErrors(cfg, query) ==
  LET foundRestrictedColumns == findRestrictedColumns(cfg.restrictedColumns, query)
  IN  IF Len(foundRestrictedColumns) > 0
        THEN <<Err(ErrRestrictedColumns, foundRestrictedColumns, 0, 0)>>
        ELSE <<>>

\* Check 6: the extracted tables that allowedTables does not include.
TableErrors(cfg, query) ==
  IF Len(cfg.allowedTables) > 0
    THEN LET unauthorizedTables ==
               SelectSeq(extractTableNames(query),
                         LAMBDA table : table \notin Elements(cfg.allowedTables))
         IN  IF Len(unauthorizedTables) > 0
               THEN <<Err(ErrUnauthorizedTables, unauthorizedTables, 0, 0)>>
               ELSE <<>>
    ELSE <<>>

\* Check 7, errors: a SELECT whose first LIMIT value exceeds maxRowLimit.
LimitErrors(cfg, operation, query) ==
  IF operation = "SELECT" /\ HasLimit(query)
       /\ LimitExceeds(FirstLimitValue(query), cfg.maxRowLimit)
    THEN <<Err(ErrLimitExceeds, <<>>, FirstLimitValue(query), cfg.maxRowLimit)>>
    ELSE <<>>

\* Check 7, warnings: a SELECT with no LIMIT clause.
LimitWarnings(cfg, operation, query) ==
  IF operation = "SELECT" /\ ~HasLimit(query)
    THEN <<Err(WarnNoLimit, <<>>, 0, cfg.maxRowLimit)>>
    ELSE <<>>

\* validate stopping at the first check that finds an error.
FailFastMutant(cfg, query, userContext) ==
  LET operation == detectOperation(query)
      found == OperationErrors(cfg, operation)
               \o DangerousErrors(query)
               \o RestrictedErrors(cfg, query)
               \o TableErrors(cfg, query)
               \o LimitErrors(cfg, operation, query)
  IN  IF cfg.requireUserContext /\ ~userContext.present
        THEN [returned |-> TRUE, warnings |-> <<>>,
              errors |-> <<Err(ErrUserContextRequired, <<>>, 0, 0)>>]
      ELSE IF operation = ""
        THEN [returned |-> TRUE, warnings |-> <<>>,
              errors |-> <<Err(ErrNoOperation, <<>>, 0, 0)>>]
      ELSE IF Len(found) > 0
        THEN [returned |-> TRUE, warnings |-> <<>>, errors |-> <<Head(found)>>]
      ELSE [returned |-> FALSE,
            warnings |-> LimitWarnings(cfg, operation, query),
            errors   |-> <<>>]

\* validate with its two short circuits taken in the other order.
OperationFirstMutant(cfg, query, userContext) ==
  LET operation == detectOperation(query)
  IN  IF operation = ""
        THEN [returned |-> TRUE, warnings |-> <<>>,
              errors |-> <<Err(ErrNoOperation, <<>>, 0, 0)>>]
      ELSE IF cfg.requireUserContext /\ ~userContext.present
        THEN [returned |-> TRUE, warnings |-> <<>>,
              errors |-> <<Err(ErrUserContextRequired, <<>>, 0, 0)>>]
      ELSE [returned |-> FALSE,
            warnings |-> LimitWarnings(cfg, operation, query),
            errors   |-> OperationErrors(cfg, operation)
                         \o DangerousErrors(query)
                         \o RestrictedErrors(cfg, query)
                         \o TableErrors(cfg, query)
                         \o LimitErrors(cfg, operation, query)]

\* validate up to the point where it would call the custom validator.
\* returned: validate has returned (a short circuit); otherwise errors and
\* warnings are what it has accumulated when it reaches check 8.
ValidateChecks(cfg, query, userContext) ==
  LET operation == detectOperation(query)
  IN  IF cfg.requireUserContext /\ ~userContext.present
        THEN [returned |-> TRUE, warnings |-> <<>>,
              errors |-> <<Err(ErrUserContextRequired, <<>>, 0, 0)>>]
      ELSE IF operation = ""
        THEN [returned |-> TRUE, warnings |-> <<>>,
              errors |-> <<Err(ErrNoOperation, <<>>, 0, 0)>>]
      ELSE [returned |-> FALSE,
            warnings |-> LimitWarnings(cfg, operation, query),
            errors   |-> OperationErrors(cfg, operation)
                         \o DangerousErrors(query)
                         \o RestrictedErrors(cfg, query)
                         \o TableErrors(cfg, query)
                         \o LimitErrors(cfg, operation, query)]

\* What the custom validator may do: resolve true, resolve false, throw a
\* value that has properties (an Error, a string), or throw null or
\* undefined (as Promise.reject() does).
CustomOutcomes == {"true", "false", "throw", "throwNullish"}

\* catch (error) { errors.push(... error.message ...) }: reading .message
\* of null or undefined is itself a TypeError, thrown out of the handler.
CatchHandlerThrows(outcome) == outcome = "throwNullish"

\* Check 8, once the awaited custom validator has settled.
CustomErrors(outcome) ==
  IF outcome = "false" THEN <<Err(ErrCustomFailed, <<>>, 0, 0)>>
  ELSE IF outcome = "throw" THEN <<Err(ErrCustomError, <<>>, 0, 0)>>
  ELSE <<>>

\* The object validate returns.
ValidationResult(errors, warnings) ==
  [valid |-> Len(errors) = 0, errors |-> errors, warnings |-> warnings]

NoValidation == [valid |-> FALSE, errors |-> <<>>, warnings |-> <<>>]

\* The literal addRowLevelSecurity inlines for userContext.userId.
UserIdLiteral(userContext) ==
  IF userContext.isString THEN "'" \o userContext.str \o "'"
  ELSE NumberToString(userContext.num)

\* /WHERE.*user_id/i.test(query)
HasUserIdFilter(query) == MatchesDotStar(ToUpperCase(query), "WHERE", "USER_ID")

\* query.replace(/<keyword>/i, replacement): the first occurrence, in any
\* letter case, replaced.
ReplaceFirst(query, keyword, replacement) ==
  LET i == IndexOf(ToUpperCase(query), keyword)
  IN  SubSeq(query, 1, i - 1) \o replacement \o SubSeq(query, i + Len(keyword), Len(query))

addRowLevelSecurity(cfg, query, userContext) ==
  LET operation == detectOperation(query)
      hasWhere  == Includes(ToUpperCase(query), "WHERE")
      connector == IF hasWhere THEN " AND" ELSE " WHERE"
      userIdFilter == connector \o " user_id = " \o UserIdLiteral(userContext)
  IN  IF ~cfg.enableRowLevelSecurity \/ ~userContext.present THEN query
      ELSE IF operation \notin {"SELECT", "UPDATE", "DELETE"} THEN query
      ELSE IF HasUserIdFilter(query) THEN query
      ELSE IF Includes(ToUpperCase(query), "ORDER BY")
        THEN ReplaceFirst(query, "ORDER BY", userIdFilter \o " ORDER BY")
      ELSE IF Includes(ToUpperCase(query), "LIMIT")
        THEN ReplaceFirst(query, "LIMIT", userIdFilter \o " LIMIT")
      ELSE query \o userIdFilter

(***************************************************************************)
(* QueryGenerator                                                          *)
(***************************************************************************)

\* QueryGenerator.detectOperation: the operation, or "" for null.
generatorDetectOperation(query) ==
  LET normalized == ToUpperCase(Trim(query))
  IN  IF StartsWith(normalized, "SELECT") THEN "SELECT"
      ELSE IF StartsWith(normalized, "INSERT") THEN "INSERT"
      ELSE IF StartsWith(normalized, "UPDATE") THEN "UPDATE"
      ELSE IF StartsWith(normalized, "DELETE") THEN "DELETE"
      ELSE ""

\* QueryGenerator.extractTables: the FROM and JOIN names only.
extractTables(query) ==
  LET normalized == ToLowerCase(query)
  IN  Unique(AllNames(normalized, "from", 1) \o AllNames(normalized, "join", 1))

\* (normalized.match(/<word>/g) || []).length: the matches are found left
\* to right and do not overlap.
RECURSIVE CountMatches(_, _, _)
CountMatches(s, word, from) ==
  LET i == IndexFrom(s, word, from)
  IN  IF i = 0 THEN 0 ELSE 1 + CountMatches(s, word, i + Len(word))

\* /select[\s\S]*select/i.test(query)
SelectThenSelect(query) == CountMatches(ToLowerCase(query), "select", 1) >= 2

\* estimateComplexity without its test for the word subquery.
NoSubqueryWordMutant(query) ==
  LET normalized == ToLowerCase(query)
  IN  (IF Includes(normalized, "join") THEN 1 ELSE 0)
      + (IF SelectThenSelect(query) THEN 2 ELSE 0)
      + (IF Includes(normalized, "group by") THEN 1 ELSE 0)
      + (IF Includes(normalized, "having") THEN 1 ELSE 0)
      + (IF Includes(normalized, "union") THEN 2 ELSE 0)
      + (IF CountMatches(normalized, "join", 1) > 2 THEN 2 ELSE 0)

\* estimateComplexity: the value of complexity before the tiers.
ComplexityScore(query) ==
  LET normalized == ToLowerCase(query)
  IN  (IF Includes(normalized, "join") THEN 1 ELSE 0)
      + (IF Includes(normalized, "subquery") \/ SelectThenSelect(query) THEN 2 ELSE 0)
      + (IF Includes(normalized, "group by") THEN 1 ELSE 0)
      + (IF Includes(normalized, "having") THEN 1 ELSE 0)
      + (IF Includes(normalized, "union") THEN 2 ELSE 0)
      + (IF CountMatches(normalized, "join", 1) > 2 THEN 2 ELSE 0)

\* if (complexity === 0) ... if (complexity <= 2) ...
TierOf(complexity) ==
  IF complexity = 0 THEN "low" ELSE IF complexity <= 2 THEN "medium" ELSE "high"

\* QueryGenerator.estimateComplexity
estimateComplexity(query) == TierOf(ComplexityScore(query))

\* this.config.security?.enableRowLevelSecurity && context
AppliesRowLevelSecurity(security, context) ==
  /\ security.defined
  /\ security.value.enableRowLevelSecurity.defined
  /\ security.value.enableRowLevelSecurity.value
  /\ context.present

\* operation === 'SELECT' && this.config.security?.maxRowLimit
\* (a maxRowLimit of 0 is falsy).
AddsLimit(security, operation) ==
  /\ operation = "SELECT"
  /\ security.defined
  /\ security.value.maxRowLimit.defined
  /\ security.value.maxRowLimit.value # 0

\* The query generateQuery hands to validate: the sanitized candidate
\* after the row-level-security rewrite and the limit injection.
RewrittenQuery(cfg, candidate, context) ==
  LET secured == IF AppliesRowLevelSecurity(cfg.security, context)
                   THEN addRowLevelSecurity(ValidatorConfig(cfg.security), candidate, context)
                   ELSE candidate
  IN  IF AddsLimit(cfg.security, generatorDetectOperation(secured))
        THEN addLimitIfMissing(secured, cfg.security.value.maxRowLimit.value)
        ELSE secured

\* Error values.  details is what a TextToQueryError carries as details:
\* nothing, validate's error and warning lists, or the error it wraps.
NoDetails == [kind |-> "none", errors |-> <<>>, warnings |-> <<>>, cause |-> ""]
ValidationDetails(validation) ==
  [kind |-> "validation", errors |-> validation.errors,
   warnings |-> validation.warnings, cause |-> ""]
CauseDetails(error) ==
  [kind |-> "error", errors |-> <<>>, warnings |-> <<>>, cause |-> error.name]

TextToQueryError(code, details) ==
  [typed |-> TRUE, name |-> "TextToQueryError", code |-> code, details |-> details]
\* Any other error value: a TypeError, an Error of a client library.
PlainError(name) == [typed |-> FALSE, name |-> name, code |-> "", details |-> NoDetails]
NoError == [typed |-> FALSE, name |-> "", code |-> "", details |-> NoDetails]

\* generateQuery's catch with every error wrapped.
WrapAllMutant(error) == TextToQueryError("QUERY_GENERATION_FAILED", CauseDetails(error))

\* generateQuery's catch: the error the call rejects with.
Rethrown(error) ==
  IF error.typed THEN error
  ELSE TextToQueryError("QUERY_GENERATION_FAILED", CauseDetails(error))

NoResult ==
  [present |-> FALSE, query |-> "", explanation |-> "", warnings |-> <<>>,
   operation |-> "", tables |-> <<>>, estimatedComplexity |-> ""]

\* if (!syntaxValidation.valid) throw
SkipSyntaxCheckMutant(syntaxValidation) == FALSE

SyntaxRejects(syntaxValidation) == ~syntaxValidation.valid

\* if (!validation.valid) throw
SkipValidationMutant(validation) == FALSE

ValidationRejects(validation) == ~validation.valid

(***************************************************************************)
(* State                                                                   *)
(***************************************************************************)

VARIABLES
  config,   \* the TextToQueryConfig the generator and its validator were built with
  call,     \* the generateQuery or validate call in progress, or the last one settled
  calls     \* the generateQuery calls made concurrently on one generator, by call

vars == <<config, call, calls>>

\* A call before it starts.  pc: "idle", "llm" (awaiting the provider),
\* "custom" (awaiting the custom validator), "explain" (awaiting the
\* provider's explanation), "execute" (awaiting the adapter), "returned",
\* "rejected".
IdleCall ==
  [op |-> "none", pc |-> "idle",
   method |-> "",                        \* the method wrapped around generateQuery, if any
   explainedQuery |-> "",                \* the query in the explanation prompt
   executeCalls |-> 0,                   \* invocations of adapter.executeQuery
   executedQuery |-> "",                 \* the query it was called with
   results |-> <<>>,                     \* the results ask returns
   userContext |-> NoContext,            \* generateQuery: the userContext argument
   context |-> NoContext,                \* generateQuery: the effective user context
   llmCalls |-> 0,                       \* invocations of llmProvider.generate
   rawResponse |-> "",
   candidate |-> "",                     \* sanitize(extractFromMarkdown(rawResponse))
   syntaxValid |-> FALSE,                \* validateSQLSyntax(candidate).valid
   query |-> "",                         \* generateQuery's query after the rewrites
   validateCalls |-> 0,                  \* invocations of validate
   validatedQuery |-> "",                \* the arguments validate was called with
   validatedContext |-> NoContext,
   customCalls |-> 0,                    \* invocations of the custom validator
   customQuery |-> "",                   \* the arguments it was called with
   customContext |-> NoContext,
   customOutcome |-> "",                 \* how it settled
   validation |-> NoValidation,          \* what validate returned (or holds so far)
   result |-> NoResult,                  \* the QueryResult, when returned
   input |-> "",                         \* a sanitizer method's query argument
   limit |-> 0,                          \* addLimitIfMissing's limit argument
   output |-> "",                        \* the string a sanitizer method returned
   syntax |-> [valid |-> FALSE, error |-> ""],  \* what validateSQLSyntax returned
   thrown |-> NoError,                   \* the error thrown inside the call
   rejection |-> NoError,                \* the error the call rejected with
   error |-> ""]                         \* its code (its name, if it has no code)

\* The call rejects: generateQuery's errors pass through its catch, a
\* direct caller of validate receives the error as thrown.
Reject(c, thrown) ==
  LET error == IF c.op = "generateQuery" THEN Rethrown(thrown) ELSE thrown
  IN  [c EXCEPT !.pc = "rejected", !.thrown = thrown, !.rejection = error,
                !.error = IF error.typed THEN error.code ELSE error.name]

\* The call record once validate has returned v.
AfterValidate(c, v) ==
  IF c.op = "validate"
    THEN [c EXCEPT !.pc = "returned", !.validation = v]
  ELSE IF ValidationRejects(v)
    THEN Reject([c EXCEPT !.validation = v],
                TextToQueryError("SECURITY_VALIDATION_FAILED", ValidationDetails(v)))
  ELSE [c EXCEPT !.pc = "returned", !.validation = v,
                 !.result = [present   |-> TRUE,
                             query     |-> c.query,
                             explanation |-> "Generated " \o generatorDetectOperation(c.query)
                                               \o " query for: ",
                             warnings  |-> v.warnings,
                             operation |-> generatorDetectOperation(c.query),
                             tables    |-> extractTables(c.query),
                             estimatedComplexity |-> estimateComplexity(c.query)]]

\* The call record once validate has rejected with a TypeError:
\* generateQuery's catch wraps it, a direct caller receives it.
AfterValidateThrows(c) ==
  Reject(c, PlainError("TypeError"))

\* validate(query, userContext) is called: the record when it returns or
\* suspends on the custom validator.
EnterValidate(cfg, c, query, userContext) ==
  LET checks == ValidateChecks(ValidatorConfig(cfg.security), query, userContext)
      entered == [c EXCEPT !.validateCalls = c.validateCalls + 1,
                           !.validatedQuery = query,
                           !.validatedContext = userContext]
  IN  IF checks.returned
        THEN AfterValidate(entered, ValidationResult(checks.errors, checks.warnings))
      ELSE IF ValidatorConfig(cfg.security).customValidator
        THEN [entered EXCEPT !.pc = "custom", !.customCalls = c.customCalls + 1,
                             !.customQuery = query, !.customContext = userContext,
                             !.validation = ValidationResult(checks.errors, checks.warnings)]
      ELSE AfterValidate(entered, ValidationResult(checks.errors, checks.warnings))

\* generateQuery(userInput, userContext) up to its first await.
StartGenerate(cfg, userContext) ==
  [IdleCall EXCEPT !.op = "generateQuery", !.pc = "llm", !.llmCalls = 1,
                   !.userContext = userContext,
                   !.context = EffectiveContext(userContext, cfg.userContext)]

\* validate resumes after the custom validator has settled.
AfterCustomValidator(c, outcome) ==
  IF CatchHandlerThrows(outcome)
    THEN AfterValidateThrows([c EXCEPT !.customOutcome = outcome])
    ELSE AfterValidate([c EXCEPT !.customOutcome = outcome],
                       ValidationResult(c.validation.errors \o CustomErrors(outcome),
                                        c.validation.warnings))

\* An error thrown outside generateQuery's try block reaches the caller
\* as it is; the QueryResult held in a local is gone.
Propagate(c, error) ==
  [c EXCEPT !.pc = "rejected", !.thrown = error, !.rejection = error,
            !.error = IF error.typed THEN error.code ELSE error.name,
            !.result = NoResult]

\* ChatbotHelper: await this.adapter.executeQuery(queryResult.query, ...)
ExecuteOnRejectionMutant(c) ==
  [c EXCEPT !.pc = "execute", !.executeCalls = c.executeCalls + 1,
            !.executedQuery = IF c.result.present THEN c.result.query ELSE c.query]

CallExecuteQuery(c) ==
  IF c.pc = "rejected" THEN c
  ELSE [c EXCEPT !.pc = "execute", !.executeCalls = c.executeCalls + 1,
                 !.executedQuery = c.result.query]

\* generateQueryWithExplanation after its await of generateQuery: the
\* second call of llmProvider.generate, with the query in its prompt.
CallExplanation(c) ==
  IF c.pc = "rejected" THEN c
  ELSE [c EXCEPT !.pc = "explain", !.llmCalls = c.llmCalls + 1,
                 !.explainedQuery = c.result.query]

\* generateQuery has settled: the method awaiting it resumes.
Resume(c) ==
  IF c.pc \notin {"returned", "rejected"} THEN c
  ELSE IF c.method \in {"generateQueryWithExplanation", "askWithExplanation"}
    THEN CallExplanation(c)
  ELSE IF c.method = "ask" THEN CallExecuteQuery(c)
  ELSE c

\* generateQueryWithExplanation once the explanation has arrived:
\* { ...result, explanation: extractFromMarkdown(explanation) }
AfterExplanation(c, explanation) ==
  LET explained == [c EXCEPT !.pc = "returned",
                             !.result.explanation = extractFromMarkdown(explanation)]
  IN  IF c.method = "askWithExplanation" THEN CallExecuteQuery(explained) ELSE explained

\* generateQueryWithExplanation when the explanation call rejects.
KeepQueryMutant(c, error) ==
  [c EXCEPT !.pc = "returned", !.thrown = error]

ExplanationFails(c, error) == Propagate(c, error)

\* results: Array.isArray(results) ? results : [results]
AsArray(results) == IF results.isArray THEN results.rows ELSE <<results.value>>

\* ask / askWithExplanation once executeQuery has resolved.
AfterExecuteQuery(c, results) ==
  [c EXCEPT !.pc = "returned", !.results = AsArray(results)]

\* generateQuery from the provider's completion to the call of validate.
AfterCompletion(cfg, c, rawResponse) ==
  LET candidate == sanitize(extractFromMarkdown(rawResponse))
      syntaxValidation == validateSQLSyntax(candidate)
      got == [c EXCEPT !.rawResponse = rawResponse, !.candidate = candidate,
                       !.syntaxValid = syntaxValidation.valid]
      query == RewrittenQuery(cfg, candidate, c.context)
  IN  IF SyntaxRejects(syntaxValidation)
        THEN Reject(got, TextToQueryError("INVALID_SQL_SYNTAX", NoDetails))
        ELSE EnterValidate(cfg, [got EXCEPT !.query = query], query, c.context)

(***************************************************************************)
(* Inputs                                                                  *)
(***************************************************************************)

\* The largest LIMIT value the provider's completions and the queries of
\* the direct validate calls carry.
MaxLimit == 11

LimitValues == {0} \cup ((MaxLimit - 2)..MaxLimit)

UserContexts ==
  {NoContext, NumberUser(123, "user"), StringUser("abc-123", "user")}

Optional(values) == {Undefined} \cup {Given(v) : v \in values}

AllOperations == {"SELECT", "INSERT", "UPDATE", "DELETE"}

\* The configurations the generator is constructed with.
GeneratorSecurityConfigs ==
  [allowedOperations      : {Given(AllOperations)},
   allowedTables          : {Undefined},
   restrictedColumns      : {Undefined},
   maxRowLimit            : Optional({0, 10}),
   requireUserContext     : Optional({FALSE}),
   enableRowLevelSecurity : Optional({TRUE}),
   customValidator        : BOOLEAN]
  \cup
  [allowedOperations      : {Undefined},
   allowedTables          : {Given(<<"users", "orders">>)},
   restrictedColumns      : {Given(<<"password">>)},
   maxRowLimit            : {Given(10)},
   requireUserContext     : {Given(FALSE)},
   enableRowLevelSecurity : Optional({TRUE}),
   customValidator        : {FALSE}]

GeneratorConfigs ==
  [security : Optional(GeneratorSecurityConfigs), userContext : {NoContext}]
  \cup
  [security : {Given(s) : s \in {c \in GeneratorSecurityConfigs :
                                   /\ c.enableRowLevelSecurity.defined
                                   /\ c.requireUserContext = Undefined
                                   /\ c.maxRowLimit = Given(10)
                                   /\ ~c.customValidator}},
   userContext : {NumberUser(7, "admin")}]

Completions ==
  {"SELECT id FROM orders LIMIT " \o NumberToString(n) : n \in LimitValues}
  \cup
  {"SELECT * FROM users",
   "select * from users;",
   FENCE \o "sql\nSELECT name\n  FROM users -- all of them\n" \o FENCE,
   "SELECT id /* pk */ FROM orders WHERE status = 'open' ORDER BY id",
   "SELECT * FROM orders WHERE user_id = 999",
   "SELECT * FROM users; DROP TABLE users",
   "SELECT * FROM orders LIMIT 5; DELETE FROM orders; --",
   "SELECT * FROM (SELECT * FROM orders LIMIT 5) o LIMIT 500",
   "SELECT password FROM secrets",
   "UPDATE orders SET status = 'paid' WHERE id = 1",
   "DELETE FROM orders",
   "INSERT INTO orders (id) VALUES (1)",
   "WITH t AS (SELECT 1) SELECT * FROM t",
   "with t as (select 1 select * from t;",
   "DROP TABLE users",
   "SELECT * FROM users WHERE (id = 1",
   "I cannot help with that."}

\* The configurations a validator is constructed with for direct calls of
\* validate.
ValidatorSecurityConfigs ==
  [allowedOperations      : {Undefined, Given({"SELECT", "INSERT"}), Given(AllOperations)},
   allowedTables          : {Undefined, Given(<<"users", "orders">>)},
   restrictedColumns      : {Undefined, Given(<<"password", "ssn">>)},
   maxRowLimit            : Optional({0, 10}),
   requireUserContext     : Optional({FALSE}),
   enableRowLevelSecurity : {Undefined},
   customValidator        : BOOLEAN]
  \cup
  [allowedOperations      : {Given(AllOperations)},
   allowedTables          : {Given(<<"Users", "Orders">>)},
   restrictedColumns      : {Undefined},
   maxRowLimit            : {Undefined},
   requireUserContext     : {Undefined},
   enableRowLevelSecurity : {Undefined},
   customValidator        : {FALSE}]

ValidatorConfigs ==
  [security : Optional(ValidatorSecurityConfigs), userContext : {NoContext}]

\* The queries validate is called with directly.
Queries ==
  {"SELECT * FROM users LIMIT " \o NumberToString(n) : n \in LimitValues}
  \cup
  {"SELECT * FROM users",
   "  select id, name from Users\n",
   "SELECT * FROM users WHERE id = 1",
   "SELECT * FROM users; DROP TABLE users",
   "SELECT * FROM users; DELETE FROM users;",
   "SELECT * FROM users;",
   "SELECT * FROM users UNION SELECT * FROM passwords",
   "SELECT * FROM admin_secrets",
   "SELECT Password FROM users",
   "SELECT id FROM users WHERE ssn = '1' OR password = 'x'",
   "SELECT * FROM orders o JOIN secrets s ON o.id = s.id",
   "SELECT * FROM (SELECT * FROM users LIMIT 5) u LIMIT 500",
   "SELECT created_at FROM orders",
   "SELECT * FROM users WHERE note = 'please Execute'",
   "INSERT INTO users VALUES (1)",
   "INSERT INTO users (id) SELECT id INTO secrets FROM users",
   "UPDATE users SET name = 'x' WHERE id IN (SELECT id FROM orders)",
   "UPDATE users SET n = 1 WHERE id = 1 -- UPDATE secrets",
   "UPDATE users SET n = 1; UPDATE secrets SET n = 2;",
   "DELETE FROM orders LIMIT 500",
   "DELETE FROM secrets WHERE password = 'x' --",
   "DROP TABLE users",
   "EXEC xp_cmdshell 'dir'",
   "WITH t AS (SELECT 1) SELECT * FROM t"}

\* What llmProvider.generate rejects with: the providers' own typed
\* errors, or a TypeError out of a provider's catch handler.
ProviderFailures ==
  {TextToQueryError("OPENAI_EMPTY_RESPONSE", NoDetails),
   TextToQueryError("OPENAI_API_ERROR", CauseDetails(PlainError("Error"))),
   TextToQueryError("CLAUDE_INVALID_RESPONSE", NoDetails),
   TextToQueryError("CLAUDE_API_ERROR", CauseDetails(PlainError("Error"))),
   PlainError("TypeError")}

\* The generateQuery calls made concurrently on one generator.
MaxCalls == 2

CallIds == 1..MaxCalls

NoCalls == [id \in CallIds |-> IdleCall]

ConcurrentContexts == {NumberUser(123, "user"), StringUser("abc-123", "user")}

ConcurrentCompletions ==
  {"SELECT * FROM orders WHERE status = 'open' ORDER BY id", "DROP TABLE users"}

ConcurrentOutcomes == {"true", "throw"}

ConcurrentConfigs ==
  {[security |-> Given([allowedOperations |-> Undefined, allowedTables |-> Undefined,
                        restrictedColumns |-> Undefined, maxRowLimit |-> Given(10),
                        requireUserContext |-> Undefined,
                        enableRowLevelSecurity |-> Given(TRUE),
                        customValidator |-> custom]),
    userContext |-> NoContext] : custom \in BOOLEAN}

\* The generators a ChatbotHelper is built around, the completions and
\* explanations their provider gives and what the adapter answers.
ChatbotConfigs ==
  {[security |-> Undefined, userContext |-> NoContext]}
  \cup
  {[security |-> Given([allowedOperations |-> Undefined, allowedTables |-> Undefined,
                        restrictedColumns |-> Undefined, maxRowLimit |-> Given(10),
                        requireUserContext |-> Undefined,
                        enableRowLevelSecurity |-> Given(TRUE),
                        customValidator |-> custom]),
    userContext |-> NoContext] : custom \in BOOLEAN}

ChatbotCompletions ==
  {"SELECT * FROM users",
   FENCE \o "sql\nSELECT name FROM users ORDER BY name;\n" \o FENCE,
   "DROP TABLE users",
   "SELECT * FROM users WHERE (id = 1"}

Explanations == {"It lists the users.", FENCE \o "\nIt lists the users.\n" \o FENCE}

ExecutionResults ==
  {[isArray |-> TRUE, rows |-> <<>>, value |-> ""],
   [isArray |-> TRUE, rows |-> <<"row1", "row2">>, value |-> ""],
   [isArray |-> FALSE, rows |-> <<>>, value |-> "count"]}

Methods == {"generateQueryWithExplanation", "ask", "askWithExplanation"}

\* The texts the sanitizer's methods are called with directly: every
\* concatenation of at most MaxParts parts.
MaxParts == 3

RECURSIVE Concatenations(_, _)
Concatenations(parts, n) ==
  IF n = 0 THEN {""}
  ELSE LET shorter == Concatenations(parts, n - 1)
       IN  shorter \cup {t \o part : t \in shorter, part \in parts}

SanitizeTexts ==
  Concatenations({"SELECT 1", ";", " ", "\n", "--", "-", "/*", "*/"}, MaxParts)
  \cup
  {"SELECT * FROM users -- comment here",
   "SELECT * /* comment */ FROM users",
   "SELECT * FROM users;;",
   "SELECT   *\n  FROM\n  users",
   "SELECT 1; -- done",
   "SELECT 1;\n;",
   "SELECT 1 /* unterminated",
   "SELECT 1 -/* c */- x",
   "SELECT 1;" \o NUL}

SyntaxTexts ==
  Concatenations({"SELECT ", "DROP ", "(", ")", "'", "\"", "x"}, MaxParts)

LimitTexts ==
  Concatenations({"SELECT 1", " LIMIT ", "limit", "5", " ", "\n", "x"}, MaxParts)

\* The queries whose complexity is estimated.
ComplexityTexts ==
  {"SELECT * FROM a" \o rest :
     rest \in Concatenations({" Join b ON x", " GROUP BY x", " HAVING n > 1", " UNION ",
                              " WHERE id IN (select id FROM d)", " -- subquery"},
                             MaxParts)}

\* limit: number.
Limits == {0 - 1, 0, 5, 100}

\* The queries addRowLevelSecurity is called with directly: a statement,
\* an optional WHERE clause and an optional tail.
RowLevelSecurityQueries ==
  {statement \o where \o tail :
     statement \in {"SELECT * FROM orders", "select user_id from orders",
                    "UPDATE orders SET status = 1", "DELETE FROM orders",
                    "INSERT INTO orders VALUES (1)",
                    "SELECT credit_limit FROM accounts",
                    "WITH t AS (SELECT 1) SELECT * FROM t"},
     where \in {"", " WHERE status = 1", " WHERE user_id = 123",
                " where status = 1 and User_Id = 999",
                "\nWHERE status = 1\n  AND user_id = 123", "\nWHERE status = 1\n"},
     tail \in {"", " ORDER BY id", " LIMIT 10", " order by id limit 10"}}

RowLevelSecurityContexts ==
  {NoContext, NumberUser(123, "user"), NumberUser(0, "user"),
   StringUser("abc-123", "user"), StringUser("o'brien", "user"),
   StringUser("x' OR '1'='1", "user")}

RowLevelSecurityConfigs ==
  [security : {Undefined}
              \cup {Given([allowedOperations |-> Undefined, allowedTables |-> Undefined,
                           restrictedColumns |-> Undefined, maxRowLimit |-> Undefined,
                           requireUserContext |-> Undefined,
                           enableRowLevelSecurity |-> e,
                           customValidator |-> FALSE]) : e \in Optional(BOOLEAN)},
   userContext : {NoContext}]

(***************************************************************************)
(* Operations                                                              *)
(***************************************************************************)

Settled == call.pc \in {"returned", "rejected"}

\* generateQuery(userInput, userContext) up to its first await.
GenerateQuery(userContext) ==
  /\ call.pc = "idle"
  /\ call' = StartGenerate(config, userContext)
  /\ UNCHANGED <<config, calls>>

\* llmProvider.generate resolves with a completion.
ProviderResolves(rawResponse) ==
  /\ call.op = "generateQuery"
  /\ call.pc = "llm"
  /\ call' = Resume(AfterCompletion(config, call, rawResponse))
  /\ UNCHANGED <<config, calls>>

\* llmProvider.generate rejects: with a TextToQueryError of the provider
\* (rethrown as it is) or with any other error (wrapped).
ProviderRejects(error) ==
  /\ call.op = "generateQuery"
  /\ call.pc = "llm"
  /\ call' = Resume(Reject(call, error))
  /\ UNCHANGED <<config, calls>>

\* The custom validator settles; validate records its error, if any, and returns.
CustomValidatorSettles(outcome) ==
  /\ call.pc = "custom"
  /\ call' = Resume(AfterCustomValidator(call, outcome))
  /\ UNCHANGED <<config, calls>>

\* validate(query, userContext), called on the validator directly, up to
\* its await of the custom validator.
Validate(query, userContext) ==
  /\ call.pc = "idle"
  /\ call' = EnterValidate(config, [IdleCall EXCEPT !.op = "validate"], query, userContext)
  /\ UNCHANGED <<config, calls>>

\* generateQueryWithExplanation, ChatbotHelper.ask or askWithExplanation:
\* each passes its arguments on to generateQuery and awaits it.
CallThrough(method, userContext) ==
  /\ call.pc = "idle"
  /\ call' = [StartGenerate(config, userContext) EXCEPT !.method = method]
  /\ UNCHANGED <<config, calls>>

\* The second llmProvider.generate resolves with an explanation.
ExplanationResolves(explanation) ==
  /\ call.pc = "explain"
  /\ call' = AfterExplanation(call, explanation)
  /\ UNCHANGED <<config, calls>>

ExplanationRejects(error) ==
  /\ call.pc = "explain"
  /\ call' = ExplanationFails(call, error)
  /\ UNCHANGED <<config, calls>>

\* adapter.executeQuery resolves with the rows, or with one value.
ExecuteQueryResolves(results) ==
  /\ call.pc = "execute"
  /\ call' = AfterExecuteQuery(call, results)
  /\ UNCHANGED <<config, calls>>

\* adapter.executeQuery rejects: ask has no catch.
ExecuteQueryRejects(error) ==
  /\ call.pc = "execute"
  /\ call' = Propagate(call, error)
  /\ UNCHANGED <<config, calls>>

\* The caller has the outcome of the call; the generator and its validator
\* keep nothing of it and take the next call.
NextCall ==
  /\ Settled
  /\ call' = IdleCall
  /\ UNCHANGED <<config, calls>>

\* sanitizer.sanitize(query)
Sanitize(query) ==
  /\ call.pc = "idle"
  /\ call' = [IdleCall EXCEPT !.op = "sanitize", !.pc = "returned",
                !.input = query, !.output = sanitize(query)]
  /\ UNCHANGED <<config, calls>>

\* sanitizer.validateSQLSyntax(query)
ValidateSQLSyntax(query) ==
  /\ call.pc = "idle"
  /\ call' = [IdleCall EXCEPT !.op = "validateSQLSyntax", !.pc = "returned",
                !.input = query, !.syntax = validateSQLSyntax(query)]
  /\ UNCHANGED <<config, calls>>

\* sanitizer.addLimitIfMissing(query, limit)
AddLimitIfMissing(query, limit) ==
  /\ call.pc = "idle"
  /\ call' = [IdleCall EXCEPT !.op = "addLimitIfMissing", !.pc = "returned",
                !.input = query, !.limit = limit,
                !.output = addLimitIfMissing(query, limit)]
  /\ UNCHANGED <<config, calls>>

\* estimateComplexity(query), as generateQuery calls it for the metadata.
EstimateComplexity(query) ==
  /\ call.pc = "idle"
  /\ call' = [IdleCall EXCEPT !.op = "estimateComplexity", !.pc = "returned",
                !.input = query, !.output = estimateComplexity(query)]
  /\ UNCHANGED <<config, calls>>

\* securityValidator.addRowLevelSecurity(query, userContext), called on
\* the validator directly.
AddRowLevelSecurity(query, userContext) ==
  /\ call.pc = "idle"
  /\ call' = [IdleCall EXCEPT !.op = "addRowLevelSecurity", !.pc = "returned",
                !.input = query, !.context = userContext,
                !.output = addRowLevelSecurity(ValidatorConfig(config.security),
                                               query, userContext)]
  /\ UNCHANGED <<config, calls>>

\* const context = ...: a local of the invocation, as are prompt,
\* rawResponse, query, operation and validation.
SharedContextMutant(cs, id) ==
  LET started == {j \in CallIds : cs[j].pc # "idle"}
  IN  cs[CHOOSE j \in started : \A k \in started : k <= j].context

LocalContext(cs, id) == cs[id].context

\* One of the concurrent calls starts and runs to its first await.
ConcurrentGenerateQuery(id, userContext) ==
  /\ calls[id].pc = "idle"
  /\ calls' = [calls EXCEPT ![id] = StartGenerate(config, userContext)]
  /\ UNCHANGED <<config, call>>

\* The provider's completion arrives for one of the calls.
ConcurrentProviderResolves(id, rawResponse) ==
  /\ calls[id].pc = "llm"
  /\ calls' = [calls EXCEPT ![id] =
                 AfterCompletion(config,
                                 [calls[id] EXCEPT !.context = LocalContext(calls, id)],
                                 rawResponse)]
  /\ UNCHANGED <<config, call>>

ConcurrentProviderRejects(id, error) ==
  /\ calls[id].pc = "llm"
  /\ calls' = [calls EXCEPT ![id] = Reject(calls[id], error)]
  /\ UNCHANGED <<config, call>>

ConcurrentCustomValidatorSettles(id, outcome) ==
  /\ calls[id].pc = "custom"
  /\ calls' = [calls EXCEPT ![id] = AfterCustomValidator(calls[id], outcome)]
  /\ UNCHANGED <<config, call>>

Init ==
  /\ config \in GeneratorConfigs
  /\ call = IdleCall
  /\ calls = NoCalls

Next ==
  \/ \E userContext \in UserContexts : GenerateQuery(userContext)
  \/ \E rawResponse \in Completions : ProviderResolves(rawResponse)
  \/ \E error \in ProviderFailures : ProviderRejects(error)
  \/ \E outcome \in CustomOutcomes : CustomValidatorSettles(outcome)
  \/ NextCall

Spec == Init /\ [][Next]_vars

\* Direct calls of SecurityValidator.validate.
InitValidate ==
  /\ config \in ValidatorConfigs
  /\ call = IdleCall
  /\ calls = NoCalls

NextValidate ==
  \/ \E query \in Queries : \E userContext \in {NoContext, NumberUser(123, "user")} :
       Validate(query, userContext)
  \/ \E outcome \in CustomOutcomes : CustomValidatorSettles(outcome)
  \/ NextCall

SpecValidate == InitValidate /\ [][NextValidate]_vars

\* Direct calls of the QuerySanitizer's methods; it holds no configuration.
InitSanitizer ==
  /\ config = [security |-> Undefined, userContext |-> NoContext]
  /\ call = IdleCall
  /\ calls = NoCalls

NextSanitizer ==
  \/ \E query \in SanitizeTexts : Sanitize(query)
  \/ \E query \in SyntaxTexts : ValidateSQLSyntax(query)
  \/ \E query \in LimitTexts : \E limit \in Limits : AddLimitIfMissing(query, limit)
  \/ NextCall

SpecSanitizer == InitSanitizer /\ [][NextSanitizer]_vars

\* generateQuery calls in flight together on one QueryGenerator: each
\* step runs one call from one await to its next.
InitConcurrent ==
  /\ config \in ConcurrentConfigs
  /\ call = IdleCall
  /\ calls = NoCalls

NextConcurrent ==
  \/ \E id \in CallIds : \E userContext \in ConcurrentContexts :
       ConcurrentGenerateQuery(id, userContext)
  \/ \E id \in CallIds : \E rawResponse \in ConcurrentCompletions :
       ConcurrentProviderResolves(id, rawResponse)
  \/ \E id \in CallIds : ConcurrentProviderRejects(id, PlainError("TypeError"))
  \/ \E id \in CallIds : \E outcome \in ConcurrentOutcomes :
       ConcurrentCustomValidatorSettles(id, outcome)

SpecConcurrent == InitConcurrent /\ [][NextConcurrent]_vars

\* generateQuery, generateQueryWithExplanation and the ChatbotHelper's
\* ask and askWithExplanation built on them.
InitChatbot ==
  /\ config \in ChatbotConfigs
  /\ call = IdleCall
  /\ calls = NoCalls

NextChatbot ==
  \/ \E userContext \in UserContexts : GenerateQuery(userContext)
  \/ \E method \in Methods : \E userContext \in UserContexts :
       CallThrough(method, userContext)
  \/ \E rawResponse \in ChatbotCompletions : ProviderResolves(rawResponse)
  \/ \E error \in ProviderFailures : ProviderRejects(error)
  \/ \E outcome \in CustomOutcomes : CustomValidatorSettles(outcome)
  \/ \E explanation \in Explanations : ExplanationResolves(explanation)
  \/ \E error \in ProviderFailures : ExplanationRejects(error)
  \/ \E results \in ExecutionResults : ExecuteQueryResolves(results)
  \/ ExecuteQueryRejects(PlainError("DatabaseError"))
  \/ NextCall

SpecChatbot == InitChatbot /\ [][NextChatbot]_vars

\* The generator's metadata derivation applied to a query.
InitComplexity ==
  /\ config = [security |-> Undefined, userContext |-> NoContext]
  /\ call = IdleCall
  /\ calls = NoCalls

NextComplexity ==
  \/ \E query \in ComplexityTexts : EstimateComplexity(query)
  \/ NextCall

SpecComplexity == InitComplexity /\ [][NextComplexity]_vars

\* Direct calls of SecurityValidator.addRowLevelSecurity.
InitRowLevelSecurity ==
  /\ config \in RowLevelSecurityConfigs
  /\ call = IdleCall
  /\ calls = NoCalls

NextRowLevelSecurity ==
  \/ \E query \in RowLevelSecurityQueries : \E userContext \in RowLevelSecurityContexts :
       AddRowLevelSecurity(query, userContext)
  \/ NextCall

SpecRowLevelSecurity == InitRowLevelSecurity /\ [][NextRowLevelSecurity]_vars


(***************************************************************************)
(* Properties                                                              *)
(***************************************************************************)

\* The validator's effective configuration.
Effective == ValidatorConfig(config.security)

GenerateReturned == call.op = "generateQuery" /\ call.pc = "returned"
ValidateReturned == call.op = "validate" /\ call.pc = "returned"

\* The leading keyword of the trimmed, uppercased query, "" when it is
\* none of the four operations.
LeadingOperation(query) ==
  LET t == ToUpperCase(Trim(query))
  IN  IF \E o \in AllOperations : StartsWith(t, o)
        THEN CHOOSE o \in AllOperations : StartsWith(t, o)
        ELSE ""

MissesContext == Effective.requireUserContext /\ ~call.validatedContext.present

\* The validate call took neither short circuit.
PassesShortCircuits == ~MissesContext /\ LeadingOperation(call.validatedQuery) # ""

ErrorsOfKind(kind) ==
  {call.validation.errors[i] : i \in {j \in 1..Len(call.validation.errors) :
                                        call.validation.errors[j].kind = kind}}

WarningsOfKind(kind) ==
  {call.validation.warnings[i] : i \in {j \in 1..Len(call.validation.warnings) :
                                          call.validation.warnings[j].kind = kind}}

\* C1: generateQuery returns a QueryResult only if validateSQLSyntax accepted
\* the sanitized candidate and validate, called once with exactly the
\* returned query and the effective user context, returned valid = true;
\* a call that rejects produces no QueryResult.
C1_ReturnsOnlyValidatedQuery ==
  call.op = "generateQuery" =>
    /\ call.result.present <=> call.pc = "returned"
    /\ call.pc = "returned" =>
         /\ call.candidate = sanitize(extractFromMarkdown(call.rawResponse))
         /\ validateSQLSyntax(call.candidate).valid
         /\ call.validateCalls = 1
         /\ call.validatedQuery = call.result.query
         /\ call.validatedContext = call.context
         /\ call.validation.valid
         /\ call.validation.errors = <<>>
    /\ call.pc = "rejected" => call.result = NoResult /\ call.error # ""

\* C1 witness: a returned query that the rewrites changed and validate accepted.
C1_Witness ==
  /\ GenerateReturned
  /\ call.result.query # call.candidate
  /\ call.validation.valid
  /\ call.context.present

\* C2: with enableRowLevelSecurity true and a user context, every SELECT,
\* UPDATE or DELETE query generateQuery returns contains the filter
\* user_id = <the userId of the call's own context>.
C2_OwnerFilterOfRequestingUser ==
  ( /\ GenerateReturned
    /\ AppliesRowLevelSecurity(config.security, call.context)
    /\ LeadingOperation(call.result.query) \in {"SELECT", "UPDATE", "DELETE"} )
  => Includes(call.result.query, "user_id = " \o UserIdLiteral(call.context))

\* Text after position i of q that is more than white space and semicolons.
StatementTextAfter(q, i) ==
  \E j \in (i + 1)..Len(q) : ~IsSpace(CharAt(q, j)) /\ CharAt(q, j) # ";"

\* C3: no query generateQuery returns has a semicolon followed by further
\* statement text.
C3_SingleStatement ==
  GenerateReturned =>
    ~\E i \in 1..Len(call.result.query) :
        CharAt(call.result.query, i) = ";" /\ StatementTextAfter(call.result.query, i)

\* C4: a query that passes the two short circuits and has a semicolon
\* anywhere but at the very end of the trimmed query is invalid, with an
\* error that lists multiple statements.
C4_InnerSemicolonRejected ==
  ( /\ ValidateReturned
    /\ PassesShortCircuits
    /\ \E i \in 1..(Len(Trim(call.validatedQuery)) - 1) :
          CharAt(Trim(call.validatedQuery), i) = ";" )
  => /\ ~call.validation.valid
     /\ \E e \in ErrorsOfKind(ErrDangerousPatterns) :
          MultipleStatements \in Elements(e.names)

\* The statement of C5, for the calls in Scope: the operation-not-allowed
\* error is reported exactly when the leading operation is not allowed,
\* it names the operation, and it makes the result invalid.
OperationErrorIffNotAllowed(Scope) ==
  (ValidateReturned /\ LeadingOperation(call.validatedQuery) # "" /\ Scope) =>
    LET operation == LeadingOperation(call.validatedQuery)
    IN  /\ ErrorsOfKind(ErrOperationNotAllowed) # {}
             <=> operation \notin Effective.allowedOperations
        /\ \A e \in ErrorsOfKind(ErrOperationNotAllowed) : e.names = <<operation>>
        /\ operation \notin Effective.allowedOperations => ~call.validation.valid

\* C5 as stated: for every query whose leading keyword is one of the four
\* operations, whatever the user context.
C5_AsStated == OperationErrorIffNotAllowed(TRUE)

\* C5, amended: for every query whose leading keyword is one of the four
\* operations, in a call that does not short-circuit on the missing user
\* context, validate reports the operation-not-allowed error exactly when
\* the operation is not in allowedOperations.
C5_OperationAllowList == OperationErrorIffNotAllowed(~MissesContext)

C5_Witness ==
  /\ ValidateReturned
  /\ PassesShortCircuits
  /\ LeadingOperation(call.validatedQuery) = "INSERT"
  /\ "SELECT" \in Effective.allowedOperations
  /\ ErrorsOfKind(ErrOperationNotAllowed) # {}

\* C6: validate short-circuits (a) when requireUserContext holds and no
\* context is given, and otherwise (b) when the query begins with none of
\* the four operations; each gives valid = false, exactly one error, no
\* warning, and the custom validator is not called.  No other call of
\* validate ends this way before the remaining checks have run.
C6_ShortCircuits ==
  call.op = "validate" =>
    /\ (call.pc = "returned" /\ MissesContext) =>
         /\ call.validation =
              [valid |-> FALSE, warnings |-> <<>>,
               errors |-> <<Err(ErrUserContextRequired, <<>>, 0, 0)>>]
         /\ call.customCalls = 0
    /\ (call.pc = "returned" /\ ~MissesContext
          /\ LeadingOperation(call.validatedQuery) = "") =>
         /\ call.validation =
              [valid |-> FALSE, warnings |-> <<>>,
               errors |-> <<Err(ErrNoOperation, <<>>, 0, 0)>>]
         /\ call.customCalls = 0
    /\ call.pc = "custom" => PassesShortCircuits
    /\ (call.pc = "returned" /\ PassesShortCircuits) =>
         /\ ErrorsOfKind(ErrUserContextRequired) = {}
         /\ ErrorsOfKind(ErrNoOperation) = {}
         /\ call.customCalls = IF Effective.customValidator THEN 1 ELSE 0

\* C6 witness: both conditions hold at once and the first one decides, in
\* a validator that has a custom validator.
C6_Witness ==
  /\ ValidateReturned
  /\ MissesContext
  /\ LeadingOperation(call.validatedQuery) = ""
  /\ Effective.customValidator
  /\ call.validation.errors = <<Err(ErrUserContextRequired, <<>>, 0, 0)>>

\* Every identifier that follows FROM, JOIN, INTO or UPDATE in the query.
NamesAfterKeywords(query) ==
  LET q == ToLowerCase(query)
  IN  Elements(AllNames(q, "from", 1)) \cup Elements(AllNames(q, "join", 1))
      \cup Elements(AllNames(q, "into", 1)) \cup Elements(AllNames(q, "update", 1))

\* C7: with a non-empty allowedTables, a query (past the short circuits)
\* in which any identifier following FROM, JOIN, INTO or UPDATE is not in
\* the allow-list is invalid with an unauthorized-tables error; with an
\* empty allow-list no table error is reported.
C7_UnlistedTableRejected ==
  (ValidateReturned /\ PassesShortCircuits) =>
    /\ ( /\ Len(Effective.allowedTables) > 0
         /\ NamesAfterKeywords(call.validatedQuery) \ Elements(Effective.allowedTables) # {} )
       => ~call.validation.valid /\ ErrorsOfKind(ErrUnauthorizedTables) # {}
    /\ Len(Effective.allowedTables) = 0 => ErrorsOfKind(ErrUnauthorizedTables) = {}

\* c occurs in the query as a case-insensitive substring.
OccursIgnoringCase(query, c) ==
  \E i \in 1..(Len(query) - Len(c) + 1) :
     ToLowerCase(SubSeq(query, i, i + Len(c) - 1)) = ToLowerCase(c)

\* The statement of C8, for the calls in Scope.
RestrictedColumnsReported(Scope) ==
  (ValidateReturned /\ Scope) =>
    LET present == {c \in Elements(Effective.restrictedColumns) :
                      OccursIgnoringCase(call.validatedQuery, c)}
    IN  /\ \A c \in present :
             /\ ~call.validation.valid
             /\ \E e \in ErrorsOfKind(ErrRestrictedColumns) : c \in Elements(e.names)
        /\ \A e \in ErrorsOfKind(ErrRestrictedColumns) : Elements(e.names) = present
        /\ present = {} => ErrorsOfKind(ErrRestrictedColumns) = {}

\* C8 as stated: for every call of validate.
C8_AsStated == RestrictedColumnsReported(TRUE)

\* C8, amended: in a call of validate that takes neither short circuit,
\* every restricted column that occurs in the query as a case-insensitive
\* substring is named by an error and the result is invalid; if none
\* occurs, no restricted-column error is reported.
C8_RestrictedColumns == RestrictedColumnsReported(PassesShortCircuits)

\* C8 witness: a restricted column that the query writes in another
\* letter case is reported.
C8_Witness ==
  /\ ValidateReturned
  /\ PassesShortCircuits
  /\ ~call.validation.valid
  /\ \E e \in ErrorsOfKind(ErrRestrictedColumns) :
       \E c \in Elements(e.names) : ~Includes(call.validatedQuery, c)

LimitErrorsReported == ErrorsOfKind(ErrLimitExceeds)

\* The statement of C9, for the calls in Scope; the LIMIT value of a
\* query is the value of its first LIMIT clause.
RowLimitChecked(Scope) ==
  (ValidateReturned /\ Scope) =>
    LET q == call.validatedQuery
        m == Effective.maxRowLimit
    IN  IF LeadingOperation(q) = "SELECT"
          THEN IF ~HasLimit(q)
                 THEN /\ WarningsOfKind(WarnNoLimit) # {}
                      /\ LimitErrorsReported = {}
               ELSE IF FirstLimitValue(q) > m
                 THEN /\ LimitErrorsReported = {Err(ErrLimitExceeds, <<>>, FirstLimitValue(q), m)}
                      /\ ~call.validation.valid
               ELSE /\ LimitErrorsReported = {}
                    /\ WarningsOfKind(WarnNoLimit) = {}
          ELSE /\ LimitErrorsReported = {}
               /\ WarningsOfKind(WarnNoLimit) = {}

LimitValueAsWritten ==
  \A n \in LimitValues :
    ( /\ ValidateReturned
      /\ PassesShortCircuits
      /\ call.validatedQuery = "SELECT * FROM users LIMIT " \o NumberToString(n) )
    => (LimitErrorsReported # {} <=> n > Effective.maxRowLimit)

C10_ReturnedSelectIsLimited ==
  ( /\ GenerateReturned
    /\ LeadingOperation(call.result.query) = "SELECT"
    /\ config.security.defined
    /\ config.security.value.maxRowLimit.defined )
  => /\ HasLimit(call.result.query)
     /\ FirstLimitValue(call.result.query) <= config.security.value.maxRowLimit.value

\* C11: when validate reaches a configured custom validator, it calls it
\* once with exactly the query and user context validate was given; a
\* false return or an exception adds one error and validate returns
\* valid = false; validate itself always returns, it never rejects.
C11_CustomValidatorFailureIsCaptured ==
  call.op = "validate" =>
    /\ call.pc # "rejected"
    /\ (call.pc = "returned" /\ call.customOutcome \notin {"", "true"}) =>
         ~call.validation.valid
    /\ call.customCalls > 0 =>
         /\ call.customCalls = 1
         /\ call.customQuery = call.validatedQuery
         /\ call.customContext = call.validatedContext
    /\ (call.pc = "returned" /\ call.customCalls > 0) =>
         /\ call.customOutcome = "false" =>
              /\ Cardinality(ErrorsOfKind(ErrCustomFailed)) = 1
              /\ ErrorsOfKind(ErrCustomError) = {}
              /\ ~call.validation.valid
         /\ call.customOutcome = "throw" =>
              /\ Cardinality(ErrorsOfKind(ErrCustomError)) = 1
              /\ ErrorsOfKind(ErrCustomFailed) = {}
              /\ ~call.validation.valid
         /\ call.customOutcome = "true" =>
              ErrorsOfKind(ErrCustomFailed) \cup ErrorsOfKind(ErrCustomError) = {}
    /\ (call.pc = "returned" /\ call.customCalls = 0) =>
         ErrorsOfKind(ErrCustomFailed) \cup ErrorsOfKind(ErrCustomError) = {}

\* C12: past the two short circuits validate runs every remaining check
\* whatever the earlier ones found: each check's error is present exactly
\* when that check's own condition holds, the custom validator (if any)
\* is called once, and the result is valid exactly when the error list is
\* empty, with or without warnings.
C12_AllChecksRun ==
  (call.op = "validate" /\ call.validateCalls = 1 /\ PassesShortCircuits) =>
    LET q == call.validatedQuery
    IN  /\ call.customCalls = IF Effective.customValidator THEN 1 ELSE 0
        /\ call.pc = "returned" =>
             /\ ErrorsOfKind(ErrOperationNotAllowed) # {}
                  <=> LeadingOperation(q) \notin Effective.allowedOperations
             /\ ErrorsOfKind(ErrDangerousPatterns) # {}
                  <=> Len(detectDangerousPatterns(q)) > 0
             /\ ErrorsOfKind(ErrRestrictedColumns) # {}
                  <=> \E c \in Elements(Effective.restrictedColumns) : OccursIgnoringCase(q, c)
             /\ ErrorsOfKind(ErrUnauthorizedTables) # {}
                  <=> /\ Len(Effective.allowedTables) > 0
                      /\ Elements(extractTableNames(q)) \ Elements(Effective.allowedTables) # {}
             /\ ErrorsOfKind(ErrLimitExceeds) # {}
                  <=> /\ LeadingOperation(q) = "SELECT"
                      /\ HasLimit(q)
                      /\ FirstLimitValue(q) > Effective.maxRowLimit
             /\ ErrorsOfKind(ErrCustomFailed) # {} <=> call.customOutcome = "false"
             /\ ErrorsOfKind(ErrCustomError) # {} <=> call.customOutcome = "throw"
             /\ call.validation.valid <=> call.validation.errors = <<>>

\* C12 witness: four checks each added their error and the custom
\* validator was still called and added a fifth.
C12_Witness ==
  /\ ValidateReturned
  /\ PassesShortCircuits
  /\ ErrorsOfKind(ErrOperationNotAllowed) # {}
  /\ ErrorsOfKind(ErrDangerousPatterns) # {}
  /\ ErrorsOfKind(ErrRestrictedColumns) # {}
  /\ ErrorsOfKind(ErrUnauthorizedTables) # {}
  /\ ErrorsOfKind(ErrCustomFailed) # {}
  /\ Len(call.validation.errors) = 5

Sanitized == call.op = "sanitize" /\ call.pc = "returned"

\* C13: for every input, the output of sanitize does not end with a
\* semicolon.
C13_NoTrailingSemicolon == Sanitized => ~EndsWith(call.output, ";")

\* C14: for every input, the output of sanitize contains neither the
\* line-comment marker -- nor the block-comment opener /*.
C14_NoCommentLeft ==
  Sanitized => ~Includes(call.output, "--") /\ ~Includes(call.output, "/*")

SyntaxChecked == call.op = "validateSQLSyntax" /\ call.pc = "returned"

\* Some prefix of q closes more parentheses than it opened.
ClosesBeforeOpening(q) ==
  \E i \in 1..Len(q) : CountChar(SubSeq(q, 1, i), ")") > CountChar(SubSeq(q, 1, i), "(")

UnbalancedParentheses(q) ==
  ClosesBeforeOpening(q) \/ CountChar(q, "(") # CountChar(q, ")")

OddQuotes(q, quote) == CountChar(q, quote) % 2 = 1

BeginsWithStatementKeyword(q) ==
  \E k \in {"SELECT", "INSERT", "UPDATE", "DELETE", "WITH"} :
     StartsWith(ToUpperCase(Trim(q)), k)

\* The statement of C15, for the calls in Scope: an unbalanced query is
\* invalid and the error names an imbalance the query has, parentheses
\* before quotes, single quotes before double quotes.
ImbalanceNamed(Scope) ==
  (SyntaxChecked /\ Scope) =>
    LET q == call.input
    IN  IF UnbalancedParentheses(q)
          THEN call.syntax = [valid |-> FALSE, error |-> "Unbalanced parentheses"]
        ELSE IF OddQuotes(q, "'")
          THEN call.syntax = [valid |-> FALSE, error |-> "Unbalanced single quotes"]
        ELSE IF OddQuotes(q, "\"")
          THEN call.syntax = [valid |-> FALSE, error |-> "Unbalanced double quotes"]
        ELSE TRUE

\* C15 as stated: for every query.
C15_AsStated == ImbalanceNamed(TRUE)

\* C15, amended: for every query that begins with SELECT, INSERT, UPDATE,
\* DELETE or WITH and has unbalanced parentheses or an odd number of
\* single or double quotes, validateSQLSyntax returns valid = false with
\* an error that names the imbalance.
C15_ImbalanceRejected == ImbalanceNamed(BeginsWithStatementKeyword(call.input))

\* C15 witness: a closing parenthesis before its opener, the final count
\* being zero.
C15_Witness ==
  /\ SyntaxChecked
  /\ BeginsWithStatementKeyword(call.input)
  /\ ClosesBeforeOpening(call.input)
  /\ CountChar(call.input, "(") = CountChar(call.input, ")")
  /\ call.syntax.error = "Unbalanced parentheses"

LimitAdded == call.op = "addLimitIfMissing" /\ call.pc = "returned"

\* The statement of C16, for the calls in Scope: applying addLimitIfMissing
\* to its own output changes nothing, and a query that has a LIMIT clause
\* comes back as it went in.
AddLimitIdempotent(Scope) ==
  (LimitAdded /\ Scope) =>
    /\ addLimitIfMissing(call.output, call.limit) = call.output
    /\ HasLimit(call.input) => call.output = call.input

\* C16 as stated: for every query and every limit.
C16_AsStated == AddLimitIdempotent(TRUE)

\* C16, amended: for every query q and every limit n >= 0,
\* addLimitIfMissing(addLimitIfMissing(q, n), n) = addLimitIfMissing(q, n),
\* and a query that already carries a LIMIT clause is returned unchanged.
C16_AddLimitIdempotent == AddLimitIdempotent(call.limit >= 0)

\* C16 witness: a LIMIT clause was appended.
C16_Witness ==
  /\ LimitAdded
  /\ call.limit > 0
  /\ ~HasLimit(call.input)
  /\ call.output = call.input \o " LIMIT " \o NumberToString(call.limit)
  /\ Includes(call.input, "limit")

RowLevelSecurityCalled == call.op = "addRowLevelSecurity" /\ call.pc = "returned"

\* The query has WHERE and, somewhere after it, user_id, in any letter case.
MentionsUserIdAfterWhere(query) ==
  LET u == ToUpperCase(query)
  IN  \E i \in 1..Len(u) : \E j \in (i + 5)..Len(u) :
         MatchAt(u, "WHERE", i) /\ MatchAt(u, "USER_ID", j)

\* C17: addRowLevelSecurity returns its query unchanged when row-level
\* security is disabled, when no user context is given, when the query
\* does not begin with SELECT, UPDATE or DELETE, or when the query already
\* has a WHERE clause that mentions user_id.
C17_UnchangedWhenNotApplicable ==
  ( /\ RowLevelSecurityCalled
    /\ \/ ~Effective.enableRowLevelSecurity
       \/ ~call.context.present
       \/ LeadingOperation(call.input) \notin {"SELECT", "UPDATE", "DELETE"}
       \/ MentionsUserIdAfterWhere(call.input) )
  => call.output = call.input

\* C18: when addRowLevelSecurity injects the filter, a numeric id is
\* inlined as it is and a string id as a single-quoted literal with every
\* embedded single quote doubled, so the injected literal keeps the
\* query's quotes balanced.
C18_InjectedLiteralEscaped ==
  (RowLevelSecurityCalled /\ call.output # call.input) =>
    /\ Includes(call.output,
                " user_id = " \o (IF call.context.isString
                                    THEN "'" \o escapeValue(call.context.str) \o "'"
                                    ELSE NumberToString(call.context.num)))
    /\ CountChar(call.output, "'") % 2 = CountChar(call.input, "'") % 2

GenerateRejected == call.op = "generateQuery" /\ call.pc = "rejected"

\* C19: every rejection of generateQuery is a TextToQueryError with a
\* code: INVALID_SQL_SYNTAX when the candidate fails validateSQLSyntax,
\* SECURITY_VALIDATION_FAILED with validate's errors and warnings as
\* details when validate returns invalid, a typed error unchanged, and
\* QUERY_GENERATION_FAILED with the original error as details otherwise;
\* a call in which something failed returns no result.
C19_TypedRejections ==
  call.op = "generateQuery" =>
    /\ call.pc = "rejected" =>
         /\ call.rejection.typed
         /\ call.rejection.name = "TextToQueryError"
         /\ call.rejection.code # ""
         /\ call.error = call.rejection.code
         /\ call.thrown.typed => call.rejection = call.thrown
         /\ ~call.thrown.typed =>
              /\ call.rejection.code = "QUERY_GENERATION_FAILED"
              /\ call.rejection.details = CauseDetails(call.thrown)
         /\ (call.llmCalls = 1 /\ call.rawResponse # "" /\ ~validateSQLSyntax(call.candidate).valid) =>
              /\ call.rejection.code = "INVALID_SQL_SYNTAX"
              /\ call.validateCalls = 0
         /\ (call.validateCalls = 1 /\ call.customOutcome # "throwNullish") =>
              /\ call.rejection.code = "SECURITY_VALIDATION_FAILED"
              /\ ~call.validation.valid
              /\ call.rejection.details.errors = call.validation.errors
              /\ call.rejection.details.warnings = call.validation.warnings
              /\ Len(call.rejection.details.errors) > 0
    /\ call.pc = "returned" =>
         /\ call.thrown = NoError
         /\ call.rejection = NoError
         /\ validateSQLSyntax(call.candidate).valid
         /\ call.validation.valid
         /\ call.customOutcome \in {"", "true"}

\* C19 witness: validate found an error in a query that also earned a
\* warning, and the rejection carries both lists.
C19_Witness ==
  /\ GenerateRejected
  /\ call.rejection.code = "SECURITY_VALIDATION_FAILED"
  /\ Len(call.rejection.details.errors) > 0
  /\ Len(call.rejection.details.warnings) > 0

\* What the settled call c comes to when it runs alone on a generator
\* built with cfg: the same userContext argument, the same completion (or
\* provider failure) and the same custom-validator outcome.
Alone(cfg, c) ==
  LET started  == StartGenerate(cfg, c.userContext)
      answered == IF c.rawResponse # ""
                    THEN AfterCompletion(cfg, started, c.rawResponse)
                    ELSE Reject(started, c.thrown)
  IN  IF answered.pc = "custom"
        THEN AfterCustomValidator(answered, c.customOutcome)
        ELSE answered

\* Every settled call ended as it would have alone, and a returned query
\* that was rewritten binds user_id to the call's own user.
CallsIsolated ==
  \A id \in CallIds :
    calls[id].pc \in {"returned", "rejected"} =>
      /\ calls[id] = Alone(config, calls[id])
      /\ calls[id].pc = "returned" =>
           Includes(calls[id].result.query,
                    "user_id = " \o UserIdLiteral(calls[id].userContext))

\* C20: in every interleaving of concurrent generateQuery calls on one
\* generator, each call's outcome equals the outcome of that call run
\* alone with the same input, user context and completion, the owner
\* filter binds the call's own user id, and no step changes the config.
C20_ConcurrentCallsIsolated == []CallsIsolated /\ [][config' = config]_vars

\* C20 witness: a call of one user returned its own filter while a call
\* of another user was still suspended on its custom validator.
C20_Witness ==
  /\ calls[1].pc = "returned"
  /\ calls[2].pc = "custom"
  /\ calls[1].userContext # calls[2].userContext
  /\ Includes(calls[1].result.query, "user_id = " \o UserIdLiteral(calls[1].userContext))
  /\ Includes(calls[2].query, "user_id = " \o UserIdLiteral(calls[2].userContext))

\* The call in progress was made through the ChatbotHelper.
AskCalled == call.method \in {"ask", "askWithExplanation"}

\* generateQuery's pipeline passed: the syntax check and validate.
PipelinePassed ==
  /\ call.syntaxValid
  /\ call.validateCalls = 1
  /\ call.validation.valid

\* C21: ask and askWithExplanation call executeQuery at most once, only
\* after generation (and the explanation step of askWithExplanation) has
\* resolved, with exactly the query of the returned result; when
\* generation rejects, executeQuery is not called and the caller receives
\* that rejection.
C21_ExecutesOnlyGeneratedQuery ==
  /\ call.executeCalls <= 1
  /\ ~AskCalled => call.executeCalls = 0
  /\ AskCalled /\ call.pc \in {"llm", "custom", "explain"} => call.executeCalls = 0
  /\ call.executeCalls = 1 =>
       /\ PipelinePassed
       /\ call.executedQuery = call.query
       /\ call.executedQuery = call.validatedQuery
       /\ call.method = "askWithExplanation" =>
            call.llmCalls = 2 /\ call.explainedQuery = call.query
       /\ call.pc = "returned" => call.result.query = call.executedQuery
       /\ call.pc = "rejected" => call.rejection = PlainError("DatabaseError")
  /\ AskCalled /\ call.pc = "returned" => call.executeCalls = 1
  /\ AskCalled /\ call.pc = "rejected" /\ call.executeCalls = 0 =>
       /\ call.executedQuery = ""
       /\ call.rejection = IF call.explainedQuery = ""
                             THEN Rethrown(call.thrown) ELSE call.thrown
       /\ call.rejection # NoError

\* C21 witness: askWithExplanation returned after its one executeQuery
\* call, made with the rewritten query the generator returned.
C21_Witness ==
  /\ call.method = "askWithExplanation"
  /\ call.pc = "returned"
  /\ call.executeCalls = 1
  /\ call.executedQuery = call.result.query
  /\ call.executedQuery # call.candidate
  /\ call.results = <<"count">>

\* C22: generateQuery invokes the provider exactly once per call whatever
\* the outcome; generateQueryWithExplanation invokes it a second time only
\* after the pipeline returned a validated result (two calls on success,
\* one when the pipeline fails), and a failure of the second call rejects
\* the whole call without a query.
C22_ProviderCalls ==
  /\ call.op = "generateQuery" /\ call.method = "" => call.llmCalls = 1
  /\ call.op = "generateQuery" /\ call.method = "ask" => call.llmCalls = 1
  /\ call.method \in {"generateQueryWithExplanation", "askWithExplanation"} =>
       /\ call.llmCalls \in {1, 2}
       /\ call.pc \in {"llm", "custom"} => call.llmCalls = 1
       /\ call.llmCalls = 2 <=> call.explainedQuery # ""
       /\ call.llmCalls = 2 =>
            /\ PipelinePassed
            /\ call.explainedQuery = call.validatedQuery
            /\ call.explainedQuery = call.query
       /\ call.pc = "returned" =>
            /\ call.llmCalls = 2
            /\ call.result.present
            /\ call.thrown = NoError
            /\ call.result.explanation = "It lists the users."
       /\ call.pc = "rejected" /\ ~PipelinePassed => call.llmCalls = 1
       /\ call.pc = "rejected" /\ call.llmCalls = 2 /\ call.executeCalls = 0 =>
            /\ ~call.result.present
            /\ call.result.query = ""
            /\ call.thrown \in ProviderFailures
            /\ call.rejection = call.thrown

\* C22 witness: the second provider call of generateQueryWithExplanation
\* failed after the pipeline had passed, and the call rejected.
C22_Witness ==
  /\ call.method = "generateQueryWithExplanation"
  /\ call.pc = "rejected"
  /\ call.llmCalls = 2
  /\ PipelinePassed
  /\ call.rejection = TextToQueryError("OPENAI_EMPTY_RESPONSE", NoDetails)

\* The provider's completion has arrived in a generateQuery call.
CompletionArrived == call.op = "generateQuery" /\ call.rawResponse # ""

\* C23: the stages of one generateQuery call run in the order generation
\* call, code-block extraction, sanitize, lexical check, row-level-security
\* rewrite, limit injection, validate, metadata derivation: the limit is
\* added to the query the row-level-security rewrite produced, validate
\* (and the custom validator) sees the fully rewritten query, and after a
\* failed lexical check no rewrite, validate or custom validator runs.
C23_StageOrder ==
  CompletionArrived =>
    LET extracted == extractFromMarkdown(call.rawResponse)
        secured   == IF AppliesRowLevelSecurity(config.security, call.context)
                       THEN addRowLevelSecurity(Effective, call.candidate, call.context)
                       ELSE call.candidate
        limited   == IF AddsLimit(config.security, generatorDetectOperation(secured))
                       THEN addLimitIfMissing(secured, config.security.value.maxRowLimit.value)
                       ELSE secured
    IN  /\ call.llmCalls = 1
        /\ call.candidate = sanitize(extracted)
        /\ call.syntaxValid = validateSQLSyntax(call.candidate).valid
        /\ ~call.syntaxValid =>
             /\ call.pc = "rejected"
             /\ call.error = "INVALID_SQL_SYNTAX"
             /\ call.query = ""
             /\ call.validateCalls = 0
             /\ call.customCalls = 0
             /\ ~call.result.present
        /\ call.syntaxValid =>
             /\ call.query = limited
             /\ call.validateCalls = 1
             /\ call.validatedQuery = limited
             /\ call.validatedContext = call.context
             /\ call.customCalls <= 1
             /\ call.customCalls = 1 => call.customQuery = limited
             /\ call.result.present =>
                  /\ call.validation.valid
                  /\ call.result.query = limited
                  /\ call.result.operation = generatorDetectOperation(limited)
                  /\ call.result.tables = extractTables(limited)
                  /\ call.result.estimatedComplexity = estimateComplexity(limited)

\* C23 witness: a fenced completion was extracted and sanitized, then
\* given the owner filter and after it the limit, and validate and the
\* custom validator saw that query before it was returned.
C23_Witness ==
  /\ GenerateReturned
  /\ StartsWith(call.rawResponse, FENCE)
  /\ call.candidate = "SELECT name FROM users"
  /\ call.query = "SELECT name FROM users WHERE user_id = 123 LIMIT 10"
  /\ call.validatedQuery = call.query
  /\ call.customCalls = 1
  /\ call.customQuery = call.query

\* The first position at which the keyword stands in the query as a word
\* of its own, in any letter case; 0 when it does not.
ClauseIndex(query, keyword) ==
  LET q == ToLowerCase(query)
      k == ToLowerCase(keyword)
      I == {i \in 1..Len(q) :
              /\ MatchAt(q, k, i)
              /\ i = 1 \/ ~IsIdentChar(CharAt(q, i - 1))
              /\ i + Len(k) > Len(q) \/ ~IsIdentChar(CharAt(q, i + Len(k)))}
  IN  IF I = {} THEN 0 ELSE MinOf(I)

\* output is input with text inserted before position pos and nothing
\* else changed.
InsertedAt(input, output, text, pos) ==
  output = SubSeq(input, 1, pos - 1) \o text \o SubSeq(input, pos, Len(input))

\* C24: when addRowLevelSecurity injects the owner filter, the output is
\* the input with the filter inserted at exactly one position and every
\* other character unchanged: immediately before the ORDER BY clause if
\* there is one, else immediately before the LIMIT clause if there is one,
\* else at the end; the connector is AND when the query has a WHERE clause
\* and WHERE otherwise.
C24_FilterInsertedAtClause ==
  (RowLevelSecurityCalled /\ call.output # call.input) =>
    LET connector == IF ClauseIndex(call.input, "WHERE") # 0 THEN " AND" ELSE " WHERE"
        filter    == connector \o " user_id = " \o UserIdLiteral(call.context)
        orderBy   == ClauseIndex(call.input, "ORDER BY")
        limit     == ClauseIndex(call.input, "LIMIT")
    IN  IF orderBy # 0 THEN InsertedAt(call.input, call.output, filter \o " ", orderBy)
        ELSE IF limit # 0 THEN InsertedAt(call.input, call.output, filter \o " ", limit)
        ELSE call.output = call.input \o filter

\* C25: the table allow-list check compares names ignoring letter case:
\* a query passes it exactly when every table it references equals,
\* ignoring case, some entry of allowedTables, whatever the letter case of
\* the entries.
C25_TableCheckIgnoresCase ==
  (ValidateReturned /\ PassesShortCircuits /\ Len(Effective.allowedTables) > 0) =>
    LET tables == extractTableNames(call.validatedQuery)
        listed(t) == \E i \in 1..Len(Effective.allowedTables) :
                        ToLowerCase(Effective.allowedTables[i]) = ToLowerCase(t)
    IN  (ErrorsOfKind(ErrUnauthorizedTables) = {})
          <=> (\A i \in 1..Len(tables) : listed(tables[i]))

ComplexityEstimated == call.op = "estimateComplexity" /\ call.pc = "returned"

\* The number of places at which word occurs in the text.
Occurrences(text, word) ==
  Cardinality({i \in 1..Len(text) : MatchAt(text, word, i)})

\* The additive score: +1 for JOIN, +2 for a nested SELECT (a second
\* SELECT in the text; with subqueryWord, also the word subquery), +1 for
\* GROUP BY, +1 for HAVING, +2 for UNION, +2 for more than two JOINs.
AdditiveScore(query, subqueryWord) ==
  LET q == ToLowerCase(query)
  IN  (IF Occurrences(q, "join") >= 1 THEN 1 ELSE 0)
      + (IF \/ Occurrences(q, "select") >= 2
            \/ subqueryWord /\ Occurrences(q, "subquery") >= 1 THEN 2 ELSE 0)
      + (IF Occurrences(q, "group by") >= 1 THEN 1 ELSE 0)
      + (IF Occurrences(q, "having") >= 1 THEN 1 ELSE 0)
      + (IF Occurrences(q, "union") >= 1 THEN 2 ELSE 0)
      + (IF Occurrences(q, "join") > 2 THEN 2 ELSE 0)

TierOfScore(query, subqueryWord) ==
  ComplexityEstimated =>
    LET score == AdditiveScore(query, subqueryWord)
    IN  call.output = (IF score = 0 THEN "low"
                       ELSE IF score \in {1, 2} THEN "medium" ELSE "high")

WithIsRejected(Scope) ==
  (CompletionArrived /\ StartsWith(ToUpperCase(call.candidate), "WITH") /\ Scope) =>
    /\ call.syntaxValid
    /\ call.query = call.candidate
    /\ call.validateCalls = 1
    /\ call.validatedQuery = call.candidate
    /\ call.customCalls = 0
    /\ call.pc = "rejected"
    /\ call.error = "SECURITY_VALIDATION_FAILED"
    /\ ~call.result.present

\* C27 as stated: every completion whose sanitized form begins with WITH
\* passes validateSQLSyntax and is rejected with SECURITY_VALIDATION_FAILED
\* under every security config and user context, unchanged by the
\* row-level-security rewrite and the limit injection.
C27_AsStated == WithIsRejected(TRUE)

\* C27: the same for the candidates whose parentheses and quotes balance.
C27_WithIsRejected ==
  WithIsRejected(/\ ~UnbalancedParentheses(call.candidate)
                 /\ ~OddQuotes(call.candidate, "'")
                 /\ ~OddQuotes(call.candidate, "\""))

\* C27 witness: a balanced WITH query was rejected by validate although
\* row-level security and a row limit were configured and a user given.
C27_Witness ==
  /\ CompletionArrived
  /\ call.candidate = "WITH t AS (SELECT 1) SELECT * FROM t"
  /\ AppliesRowLevelSecurity(config.security, call.context)
  /\ config.security.value.maxRowLimit = Given(10)
  /\ config.security.value.allowedOperations = Given(AllOperations)
  /\ call.pc = "rejected"
  /\ call.error = "SECURITY_VALIDATION_FAILED"
  /\ call.validatedQuery = call.candidate

\* C28: in every QueryResult generateQuery returns, metadata.operation is
\* non-null, is one of SELECT, INSERT, UPDATE, DELETE, equals the leading
\* keyword of the returned query, and belongs to the validator's effective
\* allowedOperations (the configured list, or SELECT only when none is
\* configured).
C28_ReturnedOperation ==
  GenerateReturned =>
    /\ call.result.operation # ""
    /\ call.result.operation \in AllOperations
    /\ StartsWith(ToUpperCase(Trim(call.result.query)), call.result.operation)
    /\ call.result.operation = LeadingOperation(call.result.query)
    /\ call.result.operation \in
         (IF config.security.defined /\ config.security.value.allowedOperations.defined
            THEN config.security.value.allowedOperations.value
            ELSE {"SELECT"})

\* C28 witness: with all four operations configured an UPDATE was
\* returned with operation UPDATE.
C28_Witness ==
  /\ GenerateReturned
  /\ config.security.defined
  /\ config.security.value.allowedOperations = Given(AllOperations)
  /\ call.result.operation = "UPDATE"
  /\ StartsWith(call.result.query, "UPDATE orders")

BannedWords ==
  {"EXEC", "EXECUTE", "DROP", "TRUNCATE", "ALTER", "CREATE", "GRANT", "REVOKE"}

\* The banned words that occur in the query, in any letter case, anywhere.
BannedWordsIn(query) == {w \in BannedWords : Includes(ToUpperCase(query), w)}

\* The statement of C29, for the calls in Scope: a query in which a banned
\* word occurs is invalid with one dangerous-patterns error that lists
\* every banned word occurring in it.
BannedWordsReported(Scope) ==
  (ValidateReturned /\ Scope /\ BannedWordsIn(call.validatedQuery) # {}) =>
    /\ ~call.validation.valid
    /\ Cardinality(ErrorsOfKind(ErrDangerousPatterns)) = 1
    /\ \A e \in ErrorsOfKind(ErrDangerousPatterns) :
         Elements(e.names) \cap BannedWords = BannedWordsIn(call.validatedQuery)

\* C29 as stated: any query in which a banned word occurs as a substring,
\* in any letter case, is returned valid=false with one combined
\* dangerous-patterns error listing every matched pattern, whatever
\* allowedOperations holds.
C29_AsStated == BannedWordsReported(TRUE)

\* C29: the same for the calls that reach the scan, those that provide the
\* required user context and whose query begins with one of the four
\* operations.
C29_BannedWordsReported == BannedWordsReported(PassesShortCircuits)

\* C29 witness: a query allowed by allowedOperations was rejected for the
\* word Execute inside a string literal, and one for created_at.
C29_Witness ==
  /\ ValidateReturned
  /\ config.security.defined
  /\ config.security.value.allowedOperations = Given(AllOperations)
  /\ call.validatedQuery = "SELECT * FROM users WHERE note = 'please Execute'"
  /\ ~call.validation.valid
  /\ \E e \in ErrorsOfKind(ErrDangerousPatterns) : e.names = <<"EXEC", "EXECUTE">>

\* C30: addRowLevelSecurity is idempotent for a fixed user context:
\* applied to its own output with the same context it returns that output,
\* so the owner filter is never injected twice.
C30_RowLevelSecurityIdempotent ==
  RowLevelSecurityCalled =>
    addRowLevelSecurity(Effective, call.output, call.context) = call.output

============================================================================
